---- MODULE Spec2Model ----
(***************************************************************************)
(* Resume parsing pipeline of backend/parser.py and the Resume model of    *)
(* backend/models.py.  Text is a sequence of one-character strings, so the *)
(* regular-expression passes of the cleaner and of the section segmenter   *)
(* are computed character by character as the code runs them.              *)
(***************************************************************************)
EXTENDS Integers, Sequences, FiniteSets, TLC

VARIABLES
    file,       \* the file on disk handed to the reader
    out1,       \* clean_text(decoded file content)
    out2,       \* clean_text(out1)
    rd,         \* outcome of read_document(file)
    cpc,        \* position of the reader/cleaner run
    sText,      \* the text handed to detect_sections
    sPositions, \* section_positions of detect_sections, sorted
    sIdx,       \* number of loop iterations of detect_sections done
    sSections,  \* the section map built so far
    spc,        \* position of the detect_sections run
    xText,      \* the experience section handed to extract_experience
    xOrgs,      \* the names the NLP model tags as organisations
    xExperience,\* the Experience extract_experience returned
    xFresher,   \* the result of is_fresher() on the record
    xpc,        \* position of the extract_experience run
    pFile,      \* the file handed to parse_resume_to_model
    pNlp,       \* the names the NLP model tags as persons and organisations
    pRead,      \* outcome of read_document(file_path)
    pSections,  \* the section map of the parse
    pInput,     \* the input each stage run so far was called with
    pFields,    \* the local variables name, email, ... assigned so far
    pThrown,    \* the stages that raised an unexpected exception
    pResume,    \* the Resume object, once built
    pOutcome,   \* what the call returned or raised
    ppc,        \* position of the parse_resume_to_model run
    kText,      \* the text handed to extract_skills
    kNlp,       \* the tokens and entities the NLP model reports
    kSkills,    \* the list extract_skills returned
    kpc,        \* position of the extract_skills run
    dText,      \* the text handed to parse_dates_and_calculate_years
    dYears,     \* the years it returned, in tenths of a year
    dpc,        \* position of the parse_dates_and_calculate_years run
    aText,      \* the section handed to extract_achievements / extract_extracurricular
    aFn,        \* which of the two extractors ran
    aItems,     \* the list it returned
    apc,        \* position of the list-extractor run
    eText,      \* the section handed to extract_education
    eEntries,   \* the list extract_education returned
    epc,        \* position of the extract_education run
    pWarnings,  \* the warnings validate_resume returned to parse_resume_to_model
    vResume,    \* the record handed to validate_resume
    vWarnings,  \* the warnings validate_resume returned
    vpc,        \* position of the validate_resume run
    mResume,    \* the two records handed to match_resume_to_jd
    mPrompt,    \* the prompt built for each record
    mResult,    \* how each call ended
    dbCandidates,\* the documents of the candidates collection, in insertion order
    dbOids,     \* the number of ObjectIds the database has generated
    dbLog,      \* the calls made so far, each with what it returned
    nText,      \* the cleaned text extract_name is called with
    nPersons,   \* the names spaCy tags as PERSON
    nName,      \* the name parse_resume_to_model assigns
    npc,        \* the position of the name run
    rMaxRetries,\* max_retries of the match_resume_to_jd call
    rWeights,   \* the weights argument of the call
    rLog,       \* the responses of the language model calls made, in order
    rPrompt,    \* the prompt the next call sends
    rOutcome,   \* what the call returned or raised
    rpc,        \* the position of the call
    bResumes,   \* the resumes_list score_batch is called with
    bWeights,   \* the weights argument of score_batch
    bResults,   \* the results collected so far
    bOutcome,   \* what score_batch returned or raised
    bShort,     \* what get_shortlisted_candidates returned
    bpc,        \* the position of the batch
    qJobs,      \* the ids of the stored job descriptions
    qCandidates,\* the stored candidates: id to document
    qMatchResults,\* the documents of the match_results collection
    qRequest,   \* the path parameter and body of POST /match/{jd_id}
    qResponse,  \* the response of the endpoint
    qpc         \* the position of the request

cleanVars == <<file, out1, out2, rd, cpc>>

sectVars == <<sText, sPositions, sIdx, sSections, spc>>

expVars == <<xText, xOrgs, xExperience, xFresher, xpc>>

parseVars == <<pFile, pNlp, pRead, pSections, pInput, pFields, pThrown,
               pResume, pOutcome, ppc>>

skillVars == <<kText, kNlp, kSkills, kpc>>

dateVars == <<dText, dYears, dpc>>

listVars == <<aText, aFn, aItems, apc>>

eduVars == <<eText, eEntries, epc>>

warnVars == <<pWarnings>>

valVars == <<vResume, vWarnings, vpc>>

matchVars == <<mResume, mPrompt, mResult>>

dbVars == <<dbCandidates, dbOids, dbLog>>

nameVars == <<nText, nPersons, nName, npc>>

retryVars == <<rMaxRetries, rWeights, rLog, rPrompt, rOutcome, rpc>>

batchVars == <<bResumes, bWeights, bResults, bOutcome, bShort, bpc>>

apiVars == <<qJobs, qCandidates, qMatchResults, qRequest, qResponse, qpc>>

vars == <<file, out1, out2, rd, cpc, sText, sPositions, sIdx, sSections, spc,
          xText, xOrgs, xExperience, xFresher, xpc,
          pFile, pNlp, pRead, pSections, pInput, pFields, pThrown,
          pResume, pOutcome, ppc,
          kText, kNlp, kSkills, kpc,
          dText, dYears, dpc,
          aText, aFn, aItems, apc,
          eText, eEntries, epc,
          pWarnings,
          vResume, vWarnings, vpc,
          mResume, mPrompt, mResult,
          dbCandidates, dbOids, dbLog,
          nText, nPersons, nName, npc,
          rMaxRetries, rWeights, rLog, rPrompt, rOutcome, rpc,
          bResumes, bWeights, bResults, bOutcome, bShort, bpc,
          qJobs, qCandidates, qMatchResults, qRequest, qResponse, qpc>>

(***************************************************************************)
(* Characters                                                              *)
(***************************************************************************)
Digits == {"0", "1", "2", "3", "4", "5", "6", "7", "8", "9"}

\* \s of the re module and the characters str.strip() removes
Whitespace == {" ", "\t", "\n"}

IsWs(c) == c \in Whitespace

IsDigit(c) == c \in Digits

UpperLetters == <<"A","B","C","D","E","F","G","H","I","J","K","L","M",
                  "N","O","P","Q","R","S","T","U","V","W","X","Y","Z">>

LowerLetters == <<"a","b","c","d","e","f","g","h","i","j","k","l","m",
                  "n","o","p","q","r","s","t","u","v","w","x","y","z">>

\* re.IGNORECASE compares characters after case folding
Lower(c) ==
    IF \E k \in 1..26 : UpperLetters[k] = c
    THEN LowerLetters[CHOOSE k \in 1..26 : UpperLetters[k] = c]
    ELSE c

MinOf(S) == CHOOSE x \in S : \A y \in S : x <= y

MaxOf(S) == CHOOSE x \in S : \A y \in S : x >= y

\* last index of the maximal run of characters of class cls starting at i
\* (i - 1 when s[i] is not in cls): a greedy cls* from position i
RunEnd(s, i, cls) ==
    LET stop == {k \in i..Len(s) : s[k] \notin cls}
    IN  IF stop = {} THEN Len(s) ELSE MinOf(stop) - 1

\* the literal lit (lower case) matches s at i, ignoring case
LitAt(s, i, lit) ==
    /\ i >= 1
    /\ i + Len(lit) - 1 <= Len(s)
    /\ \A k \in 1..Len(lit) : Lower(s[i + k - 1]) = lit[k]

\* the literal lit matches s at i exactly
LitAtCase(s, i, lit) ==
    /\ i >= 1
    /\ i + Len(lit) - 1 <= Len(s)
    /\ \A k \in 1..Len(lit) : s[i + k - 1] = lit[k]

\* ^ under re.MULTILINE
LineStart(s, i) == i = 1 \/ s[i - 1] = "\n"

\* $ under re.MULTILINE, tested after the character at index e
LineEnd(s, e) == e = Len(s) \/ s[e + 1] = "\n"

\* str.strip()
Strip(s) ==
    LET keep == {k \in 1..Len(s) : ~IsWs(s[k])}
    IN  IF keep = {} THEN <<>> ELSE SubSeq(s, MinOf(keep), MaxOf(keep))

\* str.split('\n'): the lines of s, at least one
RECURSIVE SplitLines(_)
SplitLines(s) ==
    LET nl == {k \in 1..Len(s) : s[k] = "\n"}
    IN  IF nl = {} THEN <<s>>
        ELSE <<SubSeq(s, 1, MinOf(nl) - 1)>>
             \o SplitLines(SubSeq(s, MinOf(nl) + 1, Len(s)))

\* '\n'.join(lines)
RECURSIVE JoinLines(_)
JoinLines(lines) ==
    IF Len(lines) = 0 THEN <<>>
    ELSE IF Len(lines) = 1 THEN lines[1]
    ELSE lines[1] \o <<"\n">> \o JoinLines(Tail(lines))

(***************************************************************************)
(* clean_text                                                              *)
(***************************************************************************)
L_page == <<"p","a","g","e">>
L_of == <<"o","f">>
L_confidential == <<"c","o","n","f","i","d","e","n","t","i","a","l">>
L_resume == <<"r","e","s","u","m","e">>
L_cv == <<"c","v">>
L_curriculum_vitae == <<"c","u","r","r","i","c","u","l","u","m"," ","v","i","t","a","e">>

\* Page\s+\d+(\s+of\s+\d+)?   (IGNORECASE): index of the last matched
\* character, 0 when there is no match at i
PageMarkerEnd(s, i) ==
    IF ~LitAt(s, i, L_page) THEN 0
    ELSE LET w1 == RunEnd(s, i + 4, Whitespace)
             d1 == RunEnd(s, w1 + 1, Digits)
             w2 == RunEnd(s, d1 + 1, Whitespace)
             w3 == RunEnd(s, w2 + 3, Whitespace)
             d2 == RunEnd(s, w3 + 1, Digits)
         IN  IF w1 < i + 4 \/ d1 < w1 + 1 THEN 0
             ELSE IF /\ w2 >= d1 + 1
                     /\ LitAt(s, w2 + 1, L_of)
                     /\ w3 >= w2 + 3
                     /\ d2 >= w3 + 1
                  THEN d2
                  ELSE d1

\* \d+\s*/\s*\d+
PageFractionEnd(s, i) ==
    LET d1 == RunEnd(s, i, Digits)
        w1 == RunEnd(s, d1 + 1, Whitespace)
        w2 == RunEnd(s, w1 + 2, Whitespace)
        d2 == RunEnd(s, w2 + 1, Digits)
    IN  IF /\ d1 >= i
           /\ w1 + 1 <= Len(s)
           /\ s[w1 + 1] = "/"
           /\ d2 >= w2 + 1
        THEN d2 ELSE 0

\* ^\d+$   (MULTILINE)
BarePageNumberEnd(s, i) ==
    LET d1 == RunEnd(s, i, Digits)
    IN  IF LineStart(s, i) /\ d1 >= i /\ LineEnd(s, d1) THEN d1 ELSE 0

\* Confidential|Resume|CV|Curriculum Vitae   (IGNORECASE)
BoilerplateEnd(s, i) ==
    IF LitAt(s, i, L_confidential) THEN i + Len(L_confidential) - 1
    ELSE IF LitAt(s, i, L_resume) THEN i + Len(L_resume) - 1
    ELSE IF LitAt(s, i, L_cv) THEN i + Len(L_cv) - 1
    ELSE IF LitAt(s, i, L_curriculum_vitae) THEN i + Len(L_curriculum_vitae) - 1
    ELSE 0

\* \n\s*\n\s*\n+ : from a newline to the last newline of the whitespace
\* run it starts, when the run holds three newlines or more
BlankLinesEnd(s, i) ==
    LET w == RunEnd(s, i, Whitespace)
        nl == {k \in i..w : s[k] = "\n"}
    IN  IF i <= Len(s) /\ s[i] = "\n" /\ Cardinality(nl) >= 3
        THEN MaxOf(nl) ELSE 0

\* ' +'
SpacesEnd(s, i) == RunEnd(s, i, {" "})

\* \t+
TabsEnd(s, i) == RunEnd(s, i, {"\t"})

MatchEnd(p, s, i) ==
    CASE p = "page_marker"   -> PageMarkerEnd(s, i)
      [] p = "page_fraction" -> PageFractionEnd(s, i)
      [] p = "bare_number"   -> BarePageNumberEnd(s, i)
      [] p = "boilerplate"   -> BoilerplateEnd(s, i)
      [] p = "blank_lines"   -> BlankLinesEnd(s, i)
      [] p = "spaces"        -> SpacesEnd(s, i)
      [] p = "tabs"          -> TabsEnd(s, i)

\* re.sub(p, repl, s): leftmost non-overlapping matches, scanned from i
RECURSIVE SubFrom(_, _, _, _)
SubFrom(p, s, i, repl) ==
    LET hits == {j \in i..Len(s) : MatchEnd(p, s, j) >= j}
    IN  IF hits = {} THEN SubSeq(s, i, Len(s))
        ELSE LET j == MinOf(hits)
             IN  SubSeq(s, i, j - 1) \o repl
                 \o SubFrom(p, s, MatchEnd(p, s, j) + 1, repl)

ReSub(p, repl, s) == SubFrom(p, s, 1, repl)

StripEachLine(s) ==
    LET lines == SplitLines(s)
    IN  JoinLines([k \in 1..Len(lines) |-> Strip(lines[k])])

clean_text(text) ==
    IF text = <<>> THEN <<>>
    ELSE LET t1 == ReSub("page_marker", <<>>, text)
             t2 == ReSub("page_fraction", <<>>, t1)
             t3 == ReSub("bare_number", <<>>, t2)
             t4 == ReSub("boilerplate", <<>>, t3)
             t5 == ReSub("blank_lines", <<"\n", "\n">>, t4)
             t6 == ReSub("spaces", <<" ">>, t5)
             t7 == ReSub("tabs", <<" ">>, t6)
         IN  Strip(StripEachLine(t7))

(***************************************************************************)
(* Document reader                                                         *)
(***************************************************************************)
Ok(text) == [kind |-> "ok", text |-> text]

Raise(err) == [kind |-> err, text |-> <<>>]

NoResult == [kind |-> "none", text |-> <<>>]

\* a byte that is not valid UTF-8 and the character latin-1 decodes it to
BadByte == "0xFF"

Latin1Char == "y-diaeresis"

\* open(file_path, 'r', encoding=encoding).read(): the decoded text, or
\* UnicodeDecodeError
Decode(bytes, encoding) ==
    IF encoding = "utf-8"
    THEN IF \E k \in 1..Len(bytes) : bytes[k] = BadByte
         THEN Raise("UnicodeDecodeError")
         ELSE Ok(bytes)
    ELSE Ok([k \in 1..Len(bytes) |->
                IF bytes[k] = BadByte THEN Latin1Char ELSE bytes[k]])

encodings == <<"utf-8", "latin-1", "cp1252">>

\* the loop over encodings of read_text_file, from the k-th encoding on
RECURSIVE TryEncodings(_, _)
TryEncodings(f, k) ==
    IF k > Len(encodings) THEN Raise("FileReadError")
    ELSE LET d == Decode(f.bytes, encodings[k])
         IN  IF d.kind = "ok" /\ d.text # <<>>
             THEN Ok(clean_text(d.text))
             ELSE TryEncodings(f, k + 1)

WhitespaceOnly(b) == \A k \in 1..Len(b) : IsWs(b[k])

\* read_text_file, were a whitespace-only file refused as an empty one is
read_text_file_RefuseBlank(f) ==
    IF ~f.exists THEN Raise("FileReadError")
    ELSE IF f.statError THEN Raise("OSError")
    ELSE IF WhitespaceOnly(f.bytes) THEN Raise("FileReadError")
    ELSE TryEncodings(f, 1)

\* path.stat() is called outside the try block: an OSError it raises leaves
\* the function as it is
read_text_file(f) ==
    IF ~f.exists THEN Raise("FileReadError")
    ELSE IF f.statError THEN Raise("OSError")
    ELSE IF Len(f.bytes) = 0 THEN Raise("FileReadError")
    ELSE TryEncodings(f, 1)

\* the loop over the pages, were it left at the first page that raises
RECURSIVE PagesText_StopAtFailure(_)
PagesText_StopAtFailure(pages) ==
    IF pages = <<>> \/ pages[1].kind # "ok" THEN <<>>
    ELSE (IF pages[1].text # <<>> THEN pages[1].text \o <<"\n">> ELSE <<>>)
         \o PagesText_StopAtFailure(Tail(pages))

\* text += page_text + "\n" for every page whose extraction returns text;
\* a page that raises or returns nothing is skipped
RECURSIVE PagesText(_)
PagesText(pages) ==
    IF pages = <<>> THEN <<>>
    ELSE LET p == pages[1]
         IN  (IF p.kind = "ok" /\ p.text # <<>> THEN p.text \o <<"\n">> ELSE <<>>)
             \o PagesText(Tail(pages))

read_pdf(f) ==
    IF ~f.exists THEN Raise("FileReadError")
    ELSE IF f.suffix # ".pdf" THEN Raise("FileReadError")
    ELSE IF f.statError THEN Raise("OSError")
    ELSE IF f.syntaxError THEN Raise("FileReadError")
    ELSE IF Len(f.pages) = 0 THEN Raise("FileReadError")
    ELSE IF Strip(PagesText(f.pages)) = <<>> THEN Raise("FileReadError")
    ELSE Ok(clean_text(PagesText(f.pages)))

\* the handlers of read_document, were every exception raised again
ExceptAsFileReadError_Reraise(result) == result

\* the handlers of read_document: FileReadError is raised again, any other
\* exception is raised as FileReadError
ExceptAsFileReadError(result) ==
    IF result.kind \in {"ok", "FileReadError"} THEN result
    ELSE Raise("FileReadError")

read_document(f) ==
    ExceptAsFileReadError(
        IF ~f.exists THEN Raise("FileReadError")
        ELSE IF f.suffix = ".pdf" THEN read_pdf(f)
        ELSE IF f.suffix \in {".txt", ".text"} THEN read_text_file(f)
        ELSE Raise("FileReadError"))

(***************************************************************************)
(* Reader/cleaner runs: a file is read with read_document, and its content *)
(* is cleaned once and then once more                                      *)
(***************************************************************************)
MaxPieces == 3

Pieces ==
    { <<"P","a","g","e">>, <<"C","V">>, <<"C">>, <<"V">>, <<"1">>, <<"x">>,
      <<"/">>, <<" ">>, <<"\t">>, <<"\n">>, <<BadByte>> }

\* the concatenations of at most n pieces
RECURSIVE Concats(_)
Concats(n) ==
    IF n = 0 THEN {<<>>}
    ELSE LET prev == Concats(n - 1)
         IN  prev \cup {p \o q : p \in prev, q \in Pieces}

\* path.suffix.lower() is kept in suffix
TextFile(bytes, suffix) ==
    [exists |-> TRUE, suffix |-> suffix, bytes |-> bytes,
     pages |-> <<>>, syntaxError |-> FALSE, statError |-> FALSE]

PdfFile(pages, broken) ==
    [exists |-> TRUE, suffix |-> ".pdf", bytes |-> <<"%">>,
     pages |-> pages, syntaxError |-> broken, statError |-> FALSE]

\* a file whose path.stat() raises OSError
Unstattable(f) == [f EXCEPT !.statError = TRUE]

MissingFile == [exists |-> FALSE, suffix |-> ".txt", bytes |-> <<>>,
                pages |-> <<>>, syntaxError |-> FALSE, statError |-> FALSE]

PageResults == {Ok(<<"x">>), Ok(<<"y">>), Ok(<<"C","V">>), Ok(<<>>), Ok(<<" ">>), Raise("Exception")}

ReaderFiles ==
    {TextFile(b, ".txt") : b \in Concats(MaxPieces)}
    \cup {TextFile(b, sfx) : b \in {<<>>, <<" ">>, <<"x">>}, sfx \in {".text", ".docx"}}
    \cup {PdfFile(<<>>, FALSE), PdfFile(<<Ok(<<"x">>)>>, TRUE)}
    \cup {PdfFile(<<p>>, FALSE) : p \in PageResults}
    \cup {PdfFile(<<p, q>>, FALSE) : p \in PageResults, q \in PageResults}
    \cup {MissingFile}

IdleClean ==
    /\ file = MissingFile
    /\ out1 = NoResult
    /\ out2 = NoResult
    /\ rd = NoResult
    /\ cpc = "idle"

IdleSections ==
    /\ sText = <<>>
    /\ sPositions = <<>>
    /\ sIdx = 0
    /\ sSections = <<>>
    /\ spc = "idle"

IdleExp ==
    /\ xText = <<>>
    /\ xOrgs = {}
    /\ xExperience = [years |-> 0, roles |-> <<>>]
    /\ xFresher = FALSE
    /\ xpc = "idle"

IdleParse ==
    /\ pFile = MissingFile
    /\ pNlp = [persons |-> {}, orgs |-> {}]
    /\ pRead = NoResult
    /\ pSections = <<>>
    /\ pInput = <<>>
    /\ pFields = <<>>
    /\ pThrown = {}
    /\ pResume = <<>>
    /\ pOutcome = [kind |-> "none", resume |-> <<>>]
    /\ ppc = "idle"

IdleSkills ==
    /\ kText = <<>>
    /\ kNlp = [nouns |-> {}, products |-> {}]
    /\ kSkills = <<>>
    /\ kpc = "idle"

IdleDates ==
    /\ dText = <<>>
    /\ dYears = 0
    /\ dpc = "idle"

IdleLists ==
    /\ aText = <<>>
    /\ aFn = "none"
    /\ aItems = <<>>
    /\ apc = "idle"

IdleEdu ==
    /\ eText = <<>>
    /\ eEntries = <<>>
    /\ epc = "idle"

IdleWarn ==
    /\ pWarnings = <<>>

IdleVal ==
    /\ vResume = <<>>
    /\ vWarnings = <<>>
    /\ vpc = "idle"

IdleMatch ==
    /\ mResume = <<>>
    /\ mPrompt = <<>>
    /\ mResult = <<>>

IdleDb ==
    /\ dbCandidates = <<>>
    /\ dbOids = 0
    /\ dbLog = <<>>

IdleName ==
    /\ nText = <<>>
    /\ nPersons = {}
    /\ nName = <<>>
    /\ npc = "idle"

IdleRetry ==
    /\ rMaxRetries = 0
    /\ rWeights = [some |-> FALSE, text |-> <<>>]
    /\ rLog = <<>>
    /\ rPrompt = "none"
    /\ rOutcome = [kind |-> "none"]
    /\ rpc = "idle"

IdleBatch ==
    /\ bResumes = <<>>
    /\ bWeights = [some |-> FALSE, text |-> <<>>]
    /\ bResults = <<>>
    /\ bOutcome = [kind |-> "none"]
    /\ bShort = <<>>
    /\ bpc = "idle"

IdleApi ==
    /\ qJobs = {}
    /\ qCandidates = <<>>
    /\ qMatchResults = <<>>
    /\ qRequest = [jd_id |-> "", candidate_ids |-> <<>>]
    /\ qResponse = [status |-> 0]
    /\ qpc = "idle"

InitClean ==
    /\ IdleSections
    /\ IdleExp
    /\ IdleParse
    /\ IdleSkills
    /\ IdleDates
    /\ IdleLists
    /\ IdleEdu
    /\ IdleWarn
    /\ IdleVal
    /\ IdleMatch
    /\ IdleDb
    /\ IdleName
    /\ IdleRetry
    /\ IdleBatch
    /\ IdleApi
    /\ file \in ReaderFiles
    /\ out1 = NoResult
    /\ out2 = NoResult
    /\ rd = NoResult
    /\ cpc = "start"

ReadDocument ==
    /\ cpc = "start"
    /\ rd' = read_document(file)
    /\ cpc' = "read"
    /\ UNCHANGED <<file, out1, out2, sectVars, expVars, parseVars, skillVars,
                   dateVars, listVars, eduVars, warnVars, valVars, matchVars,
                   dbVars, nameVars, retryVars, batchVars, apiVars>>

CleanText ==
    /\ cpc = "read"
    /\ out1' = Ok(clean_text(file.bytes))
    /\ cpc' = "cleaned"
    /\ UNCHANGED <<file, out2, rd, sectVars, expVars, parseVars, skillVars,
                   dateVars, listVars, eduVars, warnVars, valVars, matchVars,
                   dbVars, nameVars, retryVars, batchVars, apiVars>>

CleanAgain ==
    /\ cpc = "cleaned"
    /\ out2' = Ok(clean_text(out1.text))
    /\ cpc' = "cleaned2"
    /\ UNCHANGED <<file, out1, rd, sectVars, expVars, parseVars, skillVars,
                   dateVars, listVars, eduVars, warnVars, valVars, matchVars,
                   dbVars, nameVars, retryVars, batchVars, apiVars>>

NextClean == ReadDocument \/ CleanText \/ CleanAgain

SpecClean == InitClean /\ [][NextClean]_vars

\* C6: clean_text is idempotent: cleaning an already cleaned text returns it
\* unchanged
C6_CleanIdempotent == cpc = "cleaned2" => out2.text = out1.text

ValidUtf8(b) == \A k \in 1..Len(b) : b[k] # BadByte

IsTextFile(f) == f.exists /\ f.suffix \in {".txt", ".text"}

\* what is left of a text once its page markers and boilerplate tokens are
\* removed
Residue(text) ==
    ReSub("boilerplate", <<>>,
        ReSub("bare_number", <<>>,
            ReSub("page_fraction", <<>>,
                ReSub("page_marker", <<>>, text))))

\* C3: reading an empty or whitespace-only text file raises FileReadError
C3_BlankFileRaises ==
    (cpc \in {"read", "cleaned", "cleaned2"} /\ IsTextFile(file)
        /\ WhitespaceOnly(file.bytes))
    => rd.kind = "FileReadError"

H_skills ==
    << <<"s","k","i","l","l","s">>,
       <<"s","k","i","l","l">>,
       <<"t","e","c","h","n","i","c","a","l"," ","s","k","i","l","l","s">>,
       <<"t","e","c","h","n","i","c","a","l"," ","s","k","i","l","l">>,
       <<"c","o","r","e"," ","c","o","m","p","e","t","e","n","c","i","e","s">>,
       <<"e","x","p","e","r","t","i","s","e">> >>

H_experience ==
    << <<"e","x","p","e","r","i","e","n","c","e">>,
       <<"w","o","r","k"," ","e","x","p","e","r","i","e","n","c","e">>,
       <<"e","m","p","l","o","y","m","e","n","t">>,
       <<"p","r","o","f","e","s","s","i","o","n","a","l"," ","e","x","p","e","r","i","e","n","c","e">> >>

H_education ==
    << <<"e","d","u","c","a","t","i","o","n">>,
       <<"a","c","a","d","e","m","i","c">>,
       <<"q","u","a","l","i","f","i","c","a","t","i","o","n">> >>

H_projects ==
    << <<"p","r","o","j","e","c","t","s">>,
       <<"p","r","o","j","e","c","t">>,
       <<"p","e","r","s","o","n","a","l"," ","p","r","o","j","e","c","t","s">>,
       <<"p","e","r","s","o","n","a","l"," ","p","r","o","j","e","c","t">>,
       <<"a","c","a","d","e","m","i","c"," ","p","r","o","j","e","c","t","s">>,
       <<"a","c","a","d","e","m","i","c"," ","p","r","o","j","e","c","t">> >>

H_achievements ==
    << <<"a","c","h","i","e","v","e","m","e","n","t","s">>,
       <<"a","c","h","i","e","v","e","m","e","n","t">>,
       <<"a","c","c","o","m","p","l","i","s","h","m","e","n","t","s">>,
       <<"a","c","c","o","m","p","l","i","s","h","m","e","n","t">>,
       <<"a","w","a","r","d","s">>,
       <<"a","w","a","r","d">>,
       <<"h","o","n","o","r","s">>,
       <<"h","o","n","o","r">> >>

H_extracurricular ==
    << <<"e","x","t","r","a","-","c","u","r","r","i","c","u","l","a","r">>,
       <<"e","x","t","r","a"," ","c","u","r","r","i","c","u","l","a","r">>,
       <<"e","x","t","r","a","c","u","r","r","i","c","u","l","a","r">>,
       <<"a","c","t","i","v","i","t","i","e","s">>,
       <<"l","e","a","d","e","r","s","h","i","p">>,
       <<"v","o","l","u","n","t","e","e","r","i","n","g">>,
       <<"v","o","l","u","n","t","e","e","r","i","n">>,
       <<"c","o","m","m","u","n","i","t","y">> >>

SectionNames ==
    <<"skills", "experience", "education", "projects", "achievements",
      "extracurricular">>

section_patterns(sec) ==
    CASE sec = "skills" -> H_skills
      [] sec = "experience" -> H_experience
      [] sec = "education" -> H_education
      [] sec = "projects" -> H_projects
      [] sec = "achievements" -> H_achievements
      [] sec = "extracurricular" -> H_extracurricular

\* [:\-]?\s*\n  from index k: the last newline of the whitespace run, 0 when
\* the run holds no newline
HeaderTailEnd(s, k) ==
    LET k2 == IF k <= Len(s) /\ s[k] \in {":", "-"} THEN k + 1 ELSE k
        w == RunEnd(s, k2, Whitespace)
        nl == {j \in k2..w : s[j] = "\n"}
    IN  IF nl # {} THEN MaxOf(nl) ELSE 0

\* (?:alt1|alt2|...)[:\-]?\s*\n  from index j, trying the alternatives from
\* the a-th on
RECURSIVE HeaderKeywordEnd(_, _, _, _)
HeaderKeywordEnd(alts, s, j, a) ==
    IF a > Len(alts) THEN 0
    ELSE IF LitAt(s, j, alts[a]) /\ HeaderTailEnd(s, j + Len(alts[a])) > 0
         THEN HeaderTailEnd(s, j + Len(alts[a]))
         ELSE HeaderKeywordEnd(alts, s, j, a + 1)

\* (?:^|\n)\s*(?:...)[:\-]?\s*\n  (IGNORECASE | MULTILINE) at index i: the
\* index of the last matched character, 0 when there is no match
HeaderMatchEnd(sec, s, i) ==
    LET alts == section_patterns(sec)
        viaCaret ==
            IF LineStart(s, i)
            THEN HeaderKeywordEnd(alts, s, RunEnd(s, i, Whitespace) + 1, 1)
            ELSE 0
        viaNewline ==
            IF s[i] = "\n"
            THEN HeaderKeywordEnd(alts, s, RunEnd(s, i + 1, Whitespace) + 1, 1)
            ELSE 0
    IN  IF viaCaret > 0 THEN viaCaret ELSE viaNewline

\* re.finditer(pattern, text): the starts (first character = 1) of the
\* leftmost non-overlapping matches, scanned from i
RECURSIVE FindHeaderStarts(_, _, _)
FindHeaderStarts(sec, s, i) ==
    LET hits == {j \in i..Len(s) : HeaderMatchEnd(sec, s, j) > 0}
    IN  IF hits = {} THEN <<>>
        ELSE LET j == MinOf(hits)
             IN  <<[start |-> j, name |-> sec]>>
                 \o FindHeaderStarts(sec, s, HeaderMatchEnd(sec, s, j) + 1)

\* the (match.start(), section_name) pairs in the order they are appended
RECURSIVE AllPositions(_, _)
AllPositions(s, k) ==
    IF k > Len(SectionNames) THEN <<>>
    ELSE FindHeaderStarts(SectionNames[k], s, 1) \o AllPositions(s, k + 1)

NameRank(n) ==
    CASE n = "achievements" -> 1
      [] n = "education" -> 2
      [] n = "experience" -> 3
      [] n = "extracurricular" -> 4
      [] n = "projects" -> 5
      [] n = "skills" -> 6

\* tuple order of (start, name)
PosLess(a, b) ==
    \/ a.start < b.start
    \/ a.start = b.start /\ NameRank(a.name) < NameRank(b.name)

SeqToSet(q) == {q[k] : k \in 1..Len(q)}

\* section_positions.sort()
RECURSIVE SortSet(_)
SortSet(S) ==
    IF S = {} THEN <<>>
    ELSE LET m == CHOOSE a \in S : \A b \in S \ {a} : PosLess(a, b)
         IN  <<m>> \o SortSet(S \ {m})

SortPositions(q) == SortSet(SeqToSet(q))

\* text[start_pos:end_pos].strip() with the header line removed, for the
\* k-th entry of the sorted positions
SectionContent(text, positions, k) ==
    LET start_pos == positions[k].start
        end_pos == IF k < Len(positions) THEN positions[k + 1].start - 1
                   ELSE Len(text)
        section_content == Strip(SubSeq(text, start_pos, end_pos))
        lines == SplitLines(section_content)
    IN  IF Len(lines) > 1 THEN Strip(JoinLines(Tail(lines)))
        ELSE section_content

EmptyMap == [n \in {} |-> <<>>]

\* sections[section_name] = section_content, were an earlier occurrence kept
StoreSection_KeepFirst(sections, name, content) ==
    IF name \in DOMAIN sections THEN sections
    ELSE [n \in DOMAIN sections \cup {name} |->
            IF n = name THEN content ELSE sections[n]]

\* sections[section_name] = section_content
StoreSection(sections, name, content) ==
    [n \in DOMAIN sections \cup {name} |->
        IF n = name THEN content ELSE sections[n]]

(***************************************************************************)
(* Segmenter runs: detect_sections on a cleaned text                       *)
(***************************************************************************)
MaxLines == 4

T_SKILLS == <<"S","K","I","L","L","S">>
T_Experience == <<"E","x","p","e","r","i","e","n","c","e",":">>
SectionLines == {T_SKILLS, T_Experience, <<"a">>, <<"b">>, <<>>}

\* the sequences of at most n lines
RECURSIVE LineSeqs(_)
LineSeqs(n) ==
    IF n = 0 THEN {<<>>}
    ELSE LET prev == LineSeqs(n - 1)
         IN  prev \cup {p \o <<l>> : p \in prev, l \in SectionLines}

\* the texts of at most MaxLines lines that the cleaner leaves unchanged
CleanedTexts ==
    {t \in {JoinLines(ls) : ls \in LineSeqs(MaxLines)} : clean_text(t) = t}

InitSections ==
    /\ IdleClean
    /\ IdleExp
    /\ IdleParse
    /\ IdleSkills
    /\ IdleDates
    /\ IdleLists
    /\ IdleEdu
    /\ IdleWarn
    /\ IdleVal
    /\ IdleMatch
    /\ IdleDb
    /\ IdleName
    /\ IdleRetry
    /\ IdleBatch
    /\ IdleApi
    /\ sText \in CleanedTexts
    /\ sPositions = <<>>
    /\ sIdx = 0
    /\ sSections = EmptyMap
    /\ spc = "start"

FindHeaders ==
    /\ spc = "start"
    /\ sPositions' = SortPositions(AllPositions(sText, 1))
    /\ spc' = "loop"
    /\ UNCHANGED <<sText, sIdx, sSections, cleanVars, expVars, parseVars, skillVars,
                   dateVars, listVars, eduVars, warnVars, valVars, matchVars,
                   dbVars, nameVars, retryVars, batchVars, apiVars>>

ExtractSection ==
    /\ spc = "loop"
    /\ sIdx < Len(sPositions)
    /\ sSections' = StoreSection(sSections, sPositions[sIdx + 1].name,
                                 SectionContent(sText, sPositions, sIdx + 1))
    /\ sIdx' = sIdx + 1
    /\ UNCHANGED <<sText, sPositions, spc, cleanVars, expVars, parseVars, skillVars,
                   dateVars, listVars, eduVars, warnVars, valVars, matchVars,
                   dbVars, nameVars, retryVars, batchVars, apiVars>>

ReturnSections ==
    /\ spc = "loop"
    /\ sIdx = Len(sPositions)
    /\ spc' = "done"
    /\ UNCHANGED <<sText, sPositions, sIdx, sSections, cleanVars, expVars, parseVars,
                   skillVars, dateVars, listVars, eduVars, warnVars, valVars,
                   matchVars, dbVars, nameVars, retryVars, batchVars,
                   apiVars>>

NextSections == FindHeaders \/ ExtractSection \/ ReturnSections

SpecSections == InitSections /\ [][NextSections]_vars

\* the occurrences of section n among the first m sorted header matches
Occurrences(n, m) == {k \in 1..m : sPositions[k].name = n}

\* the text between the header line of the k-th header match and the next
\* header match (the end of the text for the last one), stripped
BodyAfterHeader(text, positions, k) ==
    LET hdrBegin == RunEnd(text, positions[k].start, Whitespace) + 1
        hdrLineEnd == MinOf({j \in hdrBegin..Len(text) : text[j] = "\n"})
        end_pos == IF k < Len(positions) THEN positions[k + 1].start - 1
                   ELSE Len(text)
    IN  Strip(SubSeq(text, hdrLineEnd + 1, end_pos))

\* C8: the body of a section is the text between its header and the next
\* header match (or the end of the document); the header line is never part
\* of it, so a header directly followed by another header has an empty body
C8_BodyExcludesHeader ==
    spc = "done" =>
        \A n \in DOMAIN sSections :
            sSections[n] = BodyAfterHeader(sText, sPositions,
                               MaxOf(Occurrences(n, Len(sPositions))))

\* C10: the header matches are handled in document order, and the section
\* map holds for every section the content of its latest occurrence handled
\* so far, earlier occurrences being overwritten
C10_LastOccurrenceWins ==
    spc \in {"loop", "done"} =>
        /\ \A j, k \in 1..Len(sPositions) :
                j < k => sPositions[j].start < sPositions[k].start
        /\ DOMAIN sSections = {sPositions[k].name : k \in 1..sIdx}
        /\ \A n \in DOMAIN sSections :
                sSections[n] = SectionContent(sText, sPositions,
                                   MaxOf(Occurrences(n, sIdx)))

C10_Witness ==
    /\ spc = "done"
    /\ \E j, k \in 1..Len(sPositions) :
        /\ j < k
        /\ sPositions[j].name = sPositions[k].name
        /\ SectionContent(sText, sPositions, j) # SectionContent(sText, sPositions, k)
        /\ BodyAfterHeader(sText, sPositions, j) # <<>>
        /\ sSections[sPositions[k].name] = SectionContent(sText, sPositions, k)

(***************************************************************************)
(* Regular expressions with backtracking (re.search, re.findall)           *)
(*                                                                         *)
(* A pattern is a sequence of items: a character class with a greedy       *)
(* repetition {min,max} (max = -1: unbounded), the assertion \b, or an     *)
(* alternation of sub-patterns tried in order.  A match is reported as the *)
(* number of characters each item consumed, found in the order the re      *)
(* module tries them.                                                      *)
(***************************************************************************)
Letters == SeqToSet(UpperLetters) \cup SeqToSet(LowerLetters)

\* \w
WordChars == Letters \cup Digits \cup {"_"}

Upper(c) ==
    IF \E k \in 1..26 : LowerLetters[k] = c
    THEN UpperLetters[CHOOSE k \in 1..26 : LowerLetters[k] = c]
    ELSE c

Rep(S, m, n) == [kind |-> "cls", set |-> S, min |-> m, max |-> n, alts |-> <<>>]

One(S) == Rep(S, 1, 1)

Plus(S) == Rep(S, 1, -1)

Star(S) == Rep(S, 0, -1)

Opt(S) == Rep(S, 0, 1)

WordB == [kind |-> "wordb", set |-> {}, min |-> 0, max |-> 0, alts |-> <<>>]

Alt(alts) == [kind |-> "alt", set |-> {}, min |-> 0, max |-> 0, alts |-> alts]

\* a literal under re.IGNORECASE
LitI(lit) == [k \in 1..Len(lit) |-> One({Lower(lit[k]), Upper(lit[k])})]

\* a literal, case-sensitive
LitC(lit) == [k \in 1..Len(lit) |-> One({lit[k]})]

\* \b before the character at index i
WordBoundaryAt(s, i) ==
    (i >= 2 /\ i - 1 <= Len(s) /\ s[i - 1] \in WordChars)
        # (i >= 1 /\ i <= Len(s) /\ s[i] \in WordChars)

RECURSIVE SumSeq(_)
SumSeq(q) == IF q = <<>> THEN 0 ELSE q[1] + SumSeq(Tail(q))

Fail == <<-1>>

\* the first way, in the re module's order, to match items[k..] at index i
RECURSIVE RePath(_, _, _, _)
RePath(items, k, s, i) ==
    IF k > Len(items) THEN <<>>
    ELSE LET it == items[k]
         IN  IF it.kind = "wordb"
             THEN IF WordBoundaryAt(s, i)
                  THEN LET r == RePath(items, k + 1, s, i)
                       IN  IF r = Fail THEN Fail ELSE <<0>> \o r
                  ELSE Fail
             ELSE IF it.kind = "alt"
             THEN LET rest == SubSeq(items, k + 1, Len(items))
                      tried == {<<a, RePath(it.alts[a] \o rest, 1, s, i)>> :
                                   a \in 1..Len(it.alts)}
                      good == {t \in tried : t[2] # Fail}
                  IN  IF good = {} THEN Fail
                      ELSE LET first == CHOOSE t \in good :
                                            \A u \in good : t[1] <= u[1]
                               r == first[2]
                               n == Len(it.alts[first[1]])
                           IN  <<SumSeq(SubSeq(r, 1, n))>> \o SubSeq(r, n + 1, Len(r))
             ELSE LET run == RunEnd(s, i, it.set) - i + 1
                      hi == IF it.max >= 0 /\ it.max < run THEN it.max ELSE run
                      tried == {<<n, RePath(items, k + 1, s, i + n)>> :
                                   n \in it.min..hi}
                      good == {t \in tried : t[2] # Fail}
                  IN  IF good = {} THEN Fail
                      ELSE LET longest == CHOOSE t \in good :
                                              \A u \in good : t[1] >= u[1]
                           IN  <<longest[1]>> \o longest[2]

NoMatch == [found |-> FALSE, start |-> 0, path |-> <<>>]

\* re.search(pattern, s) from index from on: the leftmost match
ReSearch(items, s, from) ==
    LET at == {i \in from..(Len(s) + 1) : RePath(items, 1, s, i) # Fail}
    IN  IF at = {} THEN NoMatch
        ELSE [found |-> TRUE, start |-> MinOf(at),
              path |-> RePath(items, 1, s, MinOf(at))]

MatchEndOf(m) == m.start + SumSeq(m.path) - 1

\* the text items[a..b] of the pattern matched
GroupText(s, m, a, b) ==
    LET from == m.start + SumSeq(SubSeq(m.path, 1, a - 1))
        len == SumSeq(SubSeq(m.path, a, b))
    IN  SubSeq(s, from, from + len - 1)

\* match.group(0)
MatchText(s, m) == SubSeq(s, m.start, MatchEndOf(m))

\* the non-overlapping matches of re.findall / re.finditer, left to right
RECURSIVE FindAll(_, _, _)
FindAll(items, s, from) ==
    LET m == ReSearch(items, s, from)
    IN  IF ~m.found THEN <<>>
        ELSE <<m>> \o FindAll(items, s,
                        IF MatchEndOf(m) >= m.start THEN MatchEndOf(m) + 1
                        ELSE m.start + 1)

(***************************************************************************)
(* parse_dates_and_calculate_years                                         *)
(***************************************************************************)
\* the en dash of the separator class [-–to]
EnDash == "en-dash"

\* [-–to] under re.IGNORECASE
RangeSeparator == {"-", EnDash, "t", "o", "T", "O"}

L_present == <<"p","r","e","s","e","n","t">>

\* (\w+\s+\d{n})\s*[-–to]+\s*(\w+\s+\d{n}|present): groups are items 1..3
\* and item 7
WordNumberRange(n) ==
    << Plus(WordChars), Plus(Whitespace), Rep(Digits, n, n),
       Star(Whitespace), Plus(RangeSeparator), Star(Whitespace),
       Alt(<< <<Plus(WordChars), Plus(Whitespace), Rep(Digits, n, n)>>,
              LitI(L_present) >>) >>

\* (\d{4})\s*[-–to]+\s*(\d{4}|present): groups are item 1 and item 5
YearRange ==
    << Rep(Digits, 4, 4),
       Star(Whitespace), Plus(RangeSeparator), Star(Whitespace),
       Alt(<< <<Rep(Digits, 4, 4)>>, LitI(L_present) >>) >>

\* date_patterns with, for each, the items of its two groups
date_patterns ==
    << [items |-> WordNumberRange(4), g1 |-> <<1, 3>>, g2 |-> <<7, 7>>],
       [items |-> YearRange, g1 |-> <<1, 1>>, g2 |-> <<5, 5>>],
       [items |-> WordNumberRange(2), g1 |-> <<1, 3>>, g2 |-> <<7, 7>>] >>

\* datetime.now(): the date the parse runs on
NowYear == 2026

NowMonth == 11

NowDay == 5

MonthNames ==
    << <<"j","a","n","u","a","r","y">>,
       <<"f","e","b","r","u","a","r","y">>,
       <<"m","a","r","c","h">>,
       <<"a","p","r","i","l">>,
       <<"m","a","y">>,
       <<"j","u","n","e">>,
       <<"j","u","l","y">>,
       <<"a","u","g","u","s","t">>,
       <<"s","e","p","t","e","m","b","e","r">>,
       <<"o","c","t","o","b","e","r">>,
       <<"n","o","v","e","m","b","e","r">>,
       <<"d","e","c","e","m","b","e","r">> >>

MonthAbbrevs ==
    << <<"j","a","n">>,
       <<"f","e","b">>,
       <<"m","a","r">>,
       <<"a","p","r">>,
       <<"m","a","y">>,
       <<"j","u","n">>,
       <<"j","u","l">>,
       <<"a","u","g">>,
       <<"s","e","p">>,
       <<"o","c","t">>,
       <<"n","o","v">>,
       <<"d","e","c">> >>

LowerSeq(q) == [k \in 1..Len(q) |-> Lower(q[k])]

\* the month a word names (dateutil's parserinfo.month), 0 when none
MonthOf(word) ==
    LET w == LowerSeq(word)
        hit == {k \in 1..12 : w = MonthNames[k] \/ w = MonthAbbrevs[k]}
    IN  IF hit = {} THEN 0 ELSE MinOf(hit)

DigitVal(c) == CHOOSE v \in 0..9 : <<"0","1","2","3","4","5","6","7","8","9">>[v + 1] = c

RECURSIVE NumberOf(_)
NumberOf(ds) ==
    IF ds = <<>> THEN 0
    ELSE 10 * NumberOf(SubSeq(ds, 1, Len(ds) - 1)) + DigitVal(ds[Len(ds)])

\* dateutil's lexer: the maximal runs of letters and of digits, in order
RECURSIVE DateTokens(_)
DateTokens(q) ==
    IF q = <<>> THEN <<>>
    ELSE IF q[1] \in Letters
         THEN <<SubSeq(q, 1, RunEnd(q, 1, Letters))>>
              \o DateTokens(SubSeq(q, RunEnd(q, 1, Letters) + 1, Len(q)))
    ELSE IF q[1] \in Digits
         THEN <<SubSeq(q, 1, RunEnd(q, 1, Digits))>>
              \o DateTokens(SubSeq(q, RunEnd(q, 1, Digits) + 1, Len(q)))
    ELSE DateTokens(Tail(q))

IsLeap(y) == (y % 4 = 0 /\ y % 100 # 0) \/ y % 400 = 0

DaysInMonth(y, m) ==
    IF m = 2 THEN (IF IsLeap(y) THEN 29 ELSE 28)
    ELSE IF m \in {4, 6, 9, 11} THEN 30 ELSE 31

\* days since 1970-01-01 of a date of the proleptic Gregorian calendar
DayNumber(y, m, d) ==
    LET yy == IF m <= 2 THEN y - 1 ELSE y
        era == yy \div 400
        yoe == yy - era * 400
        mp == IF m > 2 THEN m - 3 ELSE m + 9
        doy == (153 * mp + 2) \div 5 + d - 1
        doe == yoe * 365 + yoe \div 4 - yoe \div 100 + doy
    IN  era * 146097 + doe - 719468

NoDate == [ok |-> FALSE, day |-> 0]

\* dateutil's two-digit year: the century that puts it within 50 years of now
ConvertYear(v, centurySpecified) ==
    IF v >= 100 \/ centurySpecified THEN v
    ELSE LET y == v + (NowYear \div 100) * 100
         IN  IF y >= NowYear + 50 THEN y - 100
             ELSE IF y < NowYear - 50 THEN y + 100
             ELSE y

\* the date built from the parsed fields (0: not given), missing ones taken
\* from today, a missing day clamped to the month's length
BuildDate(year, month, day) ==
    LET y == IF year = 0 THEN NowYear ELSE year
        m == IF month = 0 THEN NowMonth ELSE month
        d == IF day = 0
             THEN (IF NowDay > DaysInMonth(y, m) THEN DaysInMonth(y, m) ELSE NowDay)
             ELSE day
    IN  IF m > 12 \/ d > DaysInMonth(y, m) \/ y > 9999 THEN NoDate
        ELSE [ok |-> TRUE, day |-> DayNumber(y, m, d)]

\* date_parser.parse(text, fuzzy=True) for a text of words and numbers: a
\* month name gives the month, a lone number above 31 the year and up to 31
\* the day, two numbers month and year; other words are skipped; a text
\* with no date in it, or an impossible date, raises (NoDate)
ParseDate(text) ==
    LET toks == DateTokens(text)
        nums == SelectSeq(toks, LAMBDA t : t[1] \in Digits)
        mons == SelectSeq(toks, LAMBDA t : t[1] \in Letters /\ MonthOf(t) # 0)
        month == IF mons = <<>> THEN 0 ELSE MonthOf(mons[Len(mons)])
        val(k) == NumberOf(nums[k])
        yr(k) == ConvertYear(val(k), Len(nums[k]) > 2)
    IN  IF Len(nums) = 0
        THEN IF month = 0 THEN NoDate ELSE BuildDate(0, month, 0)
        ELSE IF Len(nums) = 1
        THEN IF val(1) > 31 \/ Len(nums[1]) > 2 THEN BuildDate(yr(1), month, 0)
             ELSE IF val(1) = 0 THEN NoDate
             ELSE BuildDate(0, month, val(1))
        ELSE IF Len(nums) = 2 /\ month = 0
        THEN IF val(1) > 31 THEN (IF val(2) = 0 THEN NoDate ELSE BuildDate(yr(1), val(2), 0))
             ELSE IF val(2) > 31 THEN (IF val(1) = 0 THEN NoDate ELSE BuildDate(yr(2), val(1), 0))
             ELSE IF val(1) = 0 \/ val(2) = 0 THEN NoDate
             ELSE BuildDate(0, val(1), val(2))
        ELSE NoDate

Today == DayNumber(NowYear, NowMonth, NowDay)

\* a variant adding end - start as it is, without the floor at 0
MatchDays_Signed(text, pat, m) ==
    LET start_date == ParseDate(GroupText(text, m, pat.g1[1], pat.g1[2]))
        end_str == GroupText(text, m, pat.g2[1], pat.g2[2])
        end_date == IF (\E i \in 1..Len(end_str) : LitAt(end_str, i, L_present))
                    THEN [ok |-> TRUE, day |-> Today]
                    ELSE ParseDate(end_str)
    IN  IF start_date.ok /\ end_date.ok
        THEN end_date.day - start_date.day
        ELSE 0

\* the days one findall match adds to the total: max(0, end - start), 0
\* when an endpoint does not parse
MatchDays(text, pat, m) ==
    LET start_date == ParseDate(GroupText(text, m, pat.g1[1], pat.g1[2]))
        end_str == GroupText(text, m, pat.g2[1], pat.g2[2])
        end_date == IF (\E i \in 1..Len(end_str) : LitAt(end_str, i, L_present))
                    THEN [ok |-> TRUE, day |-> Today]
                    ELSE ParseDate(end_str)
    IN  IF start_date.ok /\ end_date.ok /\ end_date.day > start_date.day
        THEN end_date.day - start_date.day
        ELSE 0

RECURSIVE SumMatchDays(_, _, _)
SumMatchDays(text, pat, ms) ==
    IF ms = <<>> THEN 0
    ELSE MatchDays(text, pat, ms[1]) + SumMatchDays(text, pat, Tail(ms))

\* the days summed over the matches of the patterns from the k-th on
RECURSIVE TotalDays(_, _)
TotalDays(text, k) ==
    IF k > Len(date_patterns) THEN 0
    ELSE SumMatchDays(text, date_patterns[k],
                      FindAll(date_patterns[k].items, text, 1))
         + TotalDays(text, k + 1)

\* round(days / 365.25, 1), in tenths of a year
RoundTenths(days) == (80 * days + 1461) \div 2922

\* the years returned, in tenths of a year
parse_dates_and_calculate_years(text) == RoundTenths(TotalDays(text, 1))

(***************************************************************************)
(* extract_experience                                                      *)
(***************************************************************************)
\* the bullet character U+2022
Bullet == "bullet"

BulletChars == {"-", Bullet, "*"}

L_intern == <<"i","n","t","e","r","n">>
L_internship == <<"i","n","t","e","r","n","s","h","i","p">>
L_at == <<"a","t">>

CompanyCues ==
    { <<"i","n","c">>, <<"c","o","r","p">>, <<"l","t","d">>, <<"l","l","c">>, <<"c","o","m","p","a","n","y">>, <<"t","e","c","h","n","o","l","o","g","i","e","s">> }

T_Position == <<"P","o","s","i","t","i","o","n">>
T_Company == <<"C","o","m","p","a","n","y">>
T_NoDuration == <<"D","u","r","a","t","i","o","n"," ","n","o","t"," ","s","p","e","c","i","f","i","e","d">>
T_NoDescription == <<"N","o"," ","d","e","s","c","r","i","p","t","i","o","n">>

\* re.split(r'\n\s*\n', text): a separator runs from a newline to the last
\* newline of the whitespace run it starts, when the run holds two or more
RECURSIVE SplitBlocks(_)
SplitBlocks(s) ==
    LET seps == {i \in 1..Len(s) :
                    /\ s[i] = "\n"
                    /\ Cardinality({k \in i..RunEnd(s, i, Whitespace) : s[k] = "\n"}) >= 2}
    IN  IF seps = {} THEN <<s>>
        ELSE LET i == MinOf(seps)
                 w == RunEnd(s, i, Whitespace)
                 e == MaxOf({k \in i..w : s[k] = "\n"})
             IN  <<SubSeq(s, 1, i - 1)>> \o SplitBlocks(SubSeq(s, e + 1, Len(s)))

\* re.search(r'\bintern\b|\binternship\b', block, re.IGNORECASE)
HasInternWord(block) ==
    \E i \in 1..Len(block) :
        /\ WordBoundaryAt(block, i)
        /\ \/ LitAt(block, i, L_intern) /\ WordBoundaryAt(block, i + Len(L_intern))
           \/ LitAt(block, i, L_internship)
                /\ WordBoundaryAt(block, i + Len(L_internship))

\* re.search(r'\d{4}|Jan|Feb|...|Dec|present', line, re.IGNORECASE)
HasDateCue(line) ==
    \E i \in 1..Len(line) :
        \/ i + 3 <= Len(line) /\ \A k \in i..(i + 3) : line[k] \in Digits
        \/ \E m \in 1..12 : LitAt(line, i, MonthAbbrevs[m])
        \/ LitAt(line, i, L_present)

\* re.search(r'\bat\b|Inc|Corp|Ltd|LLC|Company|Technologies', line, re.IGNORECASE)
HasCompanyCue(line) ==
    \E i \in 1..Len(line) :
        \/ WordBoundaryAt(line, i) /\ LitAt(line, i, L_at) /\ WordBoundaryAt(line, i + 2)
        \/ \E c \in CompanyCues : LitAt(line, i, c)

\* re.sub(r'^at\s+', '', line, flags=re.IGNORECASE)
DropLeadingAt(line) ==
    IF LitAt(line, 1, L_at) /\ RunEnd(line, 3, Whitespace) >= 3
    THEN SubSeq(line, RunEnd(line, 3, Whitespace) + 1, Len(line))
    ELSE line

\* re.sub(r'^[-•*\s]+', '', text)
DropLeadingBullets(text) ==
    SubSeq(text, RunEnd(text, 1, BulletChars \cup Whitespace) + 1, Len(text))

\* re.sub(r'^[-•*\s]+|^at\s+', '', company, flags=re.IGNORECASE)
CleanCompany(company) ==
    IF RunEnd(company, 1, BulletChars \cup Whitespace) >= 1
    THEN DropLeadingBullets(company)
    ELSE DropLeadingAt(company)

\* text contains the entity o
Contains(text, o) == \E i \in 1..Len(text) : LitAtCase(text, i, o)

\* the first entity spaCy reports in text, given the set names of the names
\* it tags with the label asked for: the one occurring first in text
EntitiesIn(text, names) ==
    LET here == {o \in names : Contains(text, o)}
        pos(o) == MinOf({i \in 1..Len(text) : LitAtCase(text, i, o)})
    IN  IF here = {} THEN <<>>
        ELSE <<CHOOSE o \in here : \A u \in here \ {o} : pos(o) < pos(u)>>

\* [ent.text for ent in doc.ents if ent.label_ == 'ORG'], as far as its
\* first element
OrgEntities(text, orgs) == EntitiesIn(text, orgs)

\* one iteration of the loop over the lines of a role block
LineStep(acc, lines, i, orgs) ==
    LET line == Strip(lines[i])
    IN  IF HasDateCue(line)
        THEN [acc EXCEPT
                !.duration = line,
                !.role_title = IF i > 1 /\ acc.role_title = <<>>
                               THEN Strip(lines[i - 1]) ELSE @,
                !.company = IF /\ i > 2
                               /\ acc.company = <<>>
                               /\ OrgEntities(Strip(lines[i - 2]), orgs) # <<>>
                            THEN Strip(lines[i - 2]) ELSE @]
        ELSE IF HasCompanyCue(line)
        THEN [acc EXCEPT
                !.company = IF acc.company = <<>> THEN Strip(DropLeadingAt(line)) ELSE @]
        ELSE IF line # <<>> /\ acc.role_title = <<>>
        THEN [acc EXCEPT !.role_title = line]
        ELSE IF line # <<>> /\ line[1] \in BulletChars
        THEN [acc EXCEPT !.description = @ \o line \o <<" ">>]
        ELSE acc

RECURSIVE LineLoop(_, _, _, _)
LineLoop(acc, lines, i, orgs) ==
    IF i > Len(lines) THEN acc
    ELSE LineLoop(LineStep(acc, lines, i, orgs), lines, i + 1, orgs)

\* the roles (none or one) a role block adds
RoleOfBlock(block, orgs) ==
    IF Strip(block) = <<>> THEN <<>>
    ELSE LET lines == SplitLines(Strip(block))
             block_orgs == OrgEntities(block, orgs)
             acc0 == [role_title |-> <<>>,
                      company |-> IF block_orgs # <<>> THEN block_orgs[1] ELSE <<>>,
                      duration |-> <<>>,
                      description |-> <<>>]
             acc == LineLoop(acc0, lines, 1, orgs)
             role_title == Strip(DropLeadingBullets(acc.role_title))
             company == Strip(CleanCompany(acc.company))
             description == Strip(acc.description)
         IN  IF role_title # <<>> \/ company # <<>>
             THEN << [title |-> IF role_title # <<>> THEN role_title ELSE T_Position,
                      company |-> IF company # <<>> THEN company ELSE T_Company,
                      duration |-> IF acc.duration # <<>> THEN acc.duration
                                   ELSE T_NoDuration,
                      description |-> IF description # <<>> THEN description
                                      ELSE T_NoDescription,
                      is_internship |-> HasInternWord(block)] >>
             ELSE <<>>

RECURSIVE RolesOfBlocks(_, _)
RolesOfBlocks(blocks, orgs) ==
    IF blocks = <<>> THEN <<>>
    ELSE RoleOfBlock(blocks[1], orgs) \o RolesOfBlocks(Tail(blocks), orgs)

\* the years of a role, were an internship counted in full
RoleYears_Unweighted(role) ==
    2 * parse_dates_and_calculate_years(role.duration)

\* parse_dates_and_calculate_years(role.duration), halved for an
\* internship; in twentieths of a year
RoleYears(role) ==
    IF role.is_internship
    THEN parse_dates_and_calculate_years(role.duration)
    ELSE 2 * parse_dates_and_calculate_years(role.duration)

RECURSIVE SumRoleYears(_)
SumRoleYears(roles) ==
    IF roles = <<>> THEN 0
    ELSE RoleYears(roles[1]) + SumRoleYears(Tail(roles))

\* Experience(years=..., roles=...), years in twentieths of a year
Experience(years, roles) == [years |-> years, roles |-> roles]

extract_experience(text, orgs) ==
    LET roles == RolesOfBlocks(SplitBlocks(text), orgs)
    IN  Experience(SumRoleYears(roles), roles)

(***************************************************************************)
(* Resume.is_fresher                                                       *)
(***************************************************************************)
AllInternships(roles) == \A k \in 1..Len(roles) : roles[k].is_internship

\* is_fresher, were only the years looked at
is_fresher_YearsOnly(resume) == resume.experience.years = 0

is_fresher(resume) ==
    \/ resume.experience.years = 0
    \/ /\ Len(resume.experience.roles) > 0
       /\ AllInternships(resume.experience.roles)

(***************************************************************************)
(* Experience runs: extract_experience on an experience section of role    *)
(* blocks separated by blank lines, then is_fresher on the record holding  *)
(* the result                                                              *)
(***************************************************************************)
MaxRoles == 2

T_AcmeCorp ==
    <<"A","c","m","e"," ","C","o","r","p">>

B_Engineer ==
    <<"E","n","g","i","n","e","e","r","\n","A","c","m","e"," ","C","o","r",
      "p","\n","J","a","n"," ","2","0","2","0"," ","-"," ","J","a","n"," ",
      "2","0","2","2">>

B_DataIntern ==
    <<"D","a","t","a"," ","I","n","t","e","r","n","\n","J","a","n"," ","2",
      "0","1","8"," ","-"," ","J","a","n"," ","2","0","2","0">>

B_Reversed ==
    <<"T","e","s","t","e","r","\n","2","0","2","3"," ","-"," ","2","0","2","0">>

B_DateOnly ==
    <<"2","0","1","9"," ","-"," ","2","0","2","0">>

\* a role whose bullet names a year after its date line
B_Shipped ==
    <<"E","n","g","i","n","e","e","r","\n","J","a","n"," ","2","0","2","0",
      " ","-"," ","J","a","n"," ","2","0","2","2","\n","-"," ","S","h","i",
      "p","p","e","d"," ","i","n"," ","2","0","2","1">>

RoleBlocks == {B_Engineer, B_DataIntern, B_Reversed, B_DateOnly, B_Shipped}

\* the sections of at most n role blocks, a blank line between two blocks
RECURSIVE BlockTexts(_)
BlockTexts(n) ==
    IF n = 0 THEN {<<>>}
    ELSE LET prev == BlockTexts(n - 1)
         IN  prev \cup {IF p = <<>> THEN b ELSE p \o <<"\n", "\n">> \o b :
                            p \in prev, b \in RoleBlocks}

InitExp ==
    /\ IdleClean
    /\ IdleSections
    /\ IdleParse
    /\ IdleSkills
    /\ IdleDates
    /\ IdleLists
    /\ IdleEdu
    /\ IdleWarn
    /\ IdleVal
    /\ IdleMatch
    /\ IdleDb
    /\ IdleName
    /\ IdleRetry
    /\ IdleBatch
    /\ IdleApi
    /\ xText \in BlockTexts(MaxRoles)
    /\ xOrgs \in {{}, {T_AcmeCorp}}
    /\ xExperience = [years |-> 0, roles |-> <<>>]
    /\ xFresher = FALSE
    /\ xpc = "start"

ExtractExperience ==
    /\ xpc = "start"
    /\ xExperience' = extract_experience(xText, xOrgs)
    /\ xpc' = "extracted"
    /\ UNCHANGED <<xText, xOrgs, xFresher, cleanVars, sectVars, parseVars,
                   skillVars, dateVars, listVars, eduVars, warnVars, valVars,
                   matchVars, dbVars, nameVars, retryVars, batchVars,
                   apiVars>>

IsFresher ==
    /\ xpc = "extracted"
    /\ xFresher' = is_fresher([experience |-> xExperience])
    /\ xpc' = "checked"
    /\ UNCHANGED <<xText, xOrgs, xExperience, cleanVars, sectVars, parseVars,
                   skillVars, dateVars, listVars, eduVars, warnVars, valVars,
                   matchVars, dbVars, nameVars, retryVars, batchVars,
                   apiVars>>

NextExp == ExtractExperience \/ IsFresher

SpecExp == InitExp /\ [][NextExp]_vars

\* the years computed from the role's own duration string, in tenths
ComputedYears(role) == parse_dates_and_calculate_years(role.duration)

\* the sum of the computed years of the internship roles (intern = TRUE) or
\* of the other roles (intern = FALSE), in tenths
RECURSIVE SumComputedYears(_, _)
SumComputedYears(roles, intern) ==
    IF roles = <<>> THEN 0
    ELSE (IF roles[1].is_internship = intern THEN ComputedYears(roles[1]) ELSE 0)
         + SumComputedYears(Tail(roles), intern)

\* C4: years is the sum of the computed years of the non-internship roles
\* plus half the sum of the computed years of the internship roles, each
\* computed from the role's own duration; it is never negative, it is 0 when
\* no role is found, and one internship of 2.0 computed years gives 1.0
\* (years are held in twentieths, computed years in tenths)
C4_YearsWeighted ==
    xpc # "start" =>
        /\ xExperience.years = 2 * SumComputedYears(xExperience.roles, FALSE)
                               + SumComputedYears(xExperience.roles, TRUE)
        /\ xExperience.years >= 0
        /\ xExperience.roles = <<>> => xExperience.years = 0
        /\ ( /\ Len(xExperience.roles) = 1
             /\ xExperience.roles[1].is_internship
             /\ ComputedYears(xExperience.roles[1]) = 20 )
           => xExperience.years = 20

C4_Witness ==
    /\ xpc = "extracted"
    /\ Len(xExperience.roles) = 1
    /\ xExperience.roles[1].is_internship
    /\ ComputedYears(xExperience.roles[1]) = 20
    /\ xExperience.years = 20

\* C5: is_fresher() is true when years is 0, true when every role is an
\* internship whatever the years, and false when years is positive and some
\* role is not an internship
C5_FresherRule ==
    xpc = "checked" =>
        /\ xExperience.years = 0 => xFresher
        /\ (\A k \in 1..Len(xExperience.roles) :
                xExperience.roles[k].is_internship) => xFresher
        /\ ( /\ xExperience.years > 0
             /\ \E k \in 1..Len(xExperience.roles) :
                    ~xExperience.roles[k].is_internship )
           => ~xFresher

C5_Witness ==
    /\ xpc = "checked"
    /\ xExperience.years > 0
    /\ Len(xExperience.roles) > 0
    /\ \A k \in 1..Len(xExperience.roles) : xExperience.roles[k].is_internship
    /\ xFresher

(***************************************************************************)
(* Contact extractors                                                      *)
(***************************************************************************)
None == [some |-> FALSE, text |-> <<>>]

Some(text) == [some |-> TRUE, text |-> text]

\* \b[A-Za-z0-9._%+-]+@[A-Za-z0-9.-]+\.[A-Z|a-z]{2,}\b
email_pattern ==
    << WordB,
       Plus(Letters \cup Digits \cup {".", "_", "%", "+", "-"}),
       One({"@"}),
       Plus(Letters \cup Digits \cup {".", "-"}),
       One({"."}),
       Rep(Letters \cup {"|"}, 2, -1),
       WordB >>

extract_email(text) ==
    LET match == ReSearch(email_pattern, text, 1)
    IN  IF match.found THEN Some(MatchText(text, match)) ELSE None

PhoneSeparators == {"-", "."} \cup Whitespace

\* (\+?\d{1,3}[-.\s]?)?\(?\d{3}\)?[-.\s]?\d{3}[-.\s]?\d{4}
phone_pattern ==
    << Alt(<< <<Opt({"+"}), Rep(Digits, 1, 3), Opt(PhoneSeparators)>>, <<>> >>),
       Opt({"("}), Rep(Digits, 3, 3), Opt({")"}), Opt(PhoneSeparators),
       Rep(Digits, 3, 3), Opt(PhoneSeparators), Rep(Digits, 4, 4) >>

extract_phone(text) ==
    LET match == ReSearch(phone_pattern, text, 1)
    IN  IF match.found THEN Some(MatchText(text, match)) ELSE None

L_curriculum ==
    <<"c","u","r","r","i","c","u","l","u","m">>

\* extract_name: the first line when it looks like a name, else the first
\* PERSON entity of the first 500 characters, else the empty string
extract_name(text, persons) ==
    LET lines == SplitLines(text)
        first_line == Strip(lines[1])
        plain == \A k \in 1..Len(first_line) :
                    first_line[k] \notin {"@", ":"} \cup Digits
        header == \/ LitAt(first_line, 1, L_resume)
                  \/ LitAt(first_line, 1, L_cv)
                  \/ LitAt(first_line, 1, L_curriculum)
        ents == EntitiesIn(SubSeq(text, 1, MinOf({500, Len(text)})), persons)
    IN  IF first_line # <<>> /\ Len(first_line) < 50 /\ plain /\ ~header
        THEN first_line
        ELSE IF ents # <<>> THEN ents[1] ELSE <<>>

\* the value pydantic's EmailStr accepts: a local part and a domain of
\* non-empty labels separated by single periods, no label of the domain
\* beginning or ending with a hyphen, the characters of a domain name only
EmailStrAccepts(email) ==
    LET ats == {k \in 1..Len(email) : email[k] = "@"}
        at == MinOf(ats)
        local == SubSeq(email, 1, at - 1)
        domain == SubSeq(email, at + 1, Len(email))
        Dotted(q) ==
            /\ q # <<>>
            /\ q[1] # "."
            /\ q[Len(q)] # "."
            /\ \A k \in 1..(Len(q) - 1) : ~(q[k] = "." /\ q[k + 1] = ".")
    IN  /\ Cardinality(ats) = 1
        /\ Dotted(local)
        /\ Dotted(domain)
        /\ \A k \in 1..Len(domain) : domain[k] \in Letters \cup Digits \cup {".", "-"}
        /\ domain[1] # "-"
        /\ domain[Len(domain)] # "-"
        /\ \A k \in 1..(Len(domain) - 1) :
                /\ ~(domain[k] = "-" /\ domain[k + 1] = ".")
                /\ ~(domain[k] = "." /\ domain[k + 1] = "-")

(***************************************************************************)
(* List extractors.  What the taxonomy matcher and the NLP model find in a *)
(* text is outside the model: the list an extractor returns is held as the *)
(* category and the text it was extracted from, and is empty for a blank   *)
(* text                                                                    *)
(***************************************************************************)
Entries(category, text) ==
    IF Strip(text) = <<>> THEN <<>>
    ELSE <<[category |-> category, source |-> text]>>

extract_skills(text) == Entries("skills", text)

extract_education(text) == Entries("education", text)

extract_projects(text) == Entries("projects", text)

extract_achievements(text) == Entries("achievements", text)

extract_extracurricular(text) == Entries("extracurricular", text)

(***************************************************************************)
(* detect_sections as one call                                             *)
(***************************************************************************)
RECURSIVE StoreSections(_, _, _, _)
StoreSections(sections, text, positions, k) ==
    IF k > Len(positions) THEN sections
    ELSE StoreSections(StoreSection(sections, positions[k].name,
                                    SectionContent(text, positions, k)),
                       text, positions, k + 1)

detect_sections(text) ==
    StoreSections(EmptyMap, text, SortPositions(AllPositions(text, 1)), 1)

(***************************************************************************)
(* parse_resume_to_model                                                   *)
(***************************************************************************)
MinTextLen == 50

\* the length check, were no text too short
TooShort_Never(text) == FALSE

\* not text or len(text.strip()) < 50
TooShort(text) == text = <<>> \/ Len(Strip(text)) < MinTextLen

T_Unknown ==
    <<"U","n","k","n","o","w","n">>

\* the stages after the length check, in the order they run
Stages ==
    << "sections", "name", "email", "phone", "skills", "experience",
       "education", "projects", "achievements", "extracurricular" >>

FieldNames == SeqToSet(Stages) \ {"sections"}

StageIndex(stage) == CHOOSE k \in 1..Len(Stages) : Stages[k] = stage

\* the position after a stage
AfterStage(stage) ==
    IF StageIndex(stage) = Len(Stages) THEN "assemble"
    ELSE Stages[StageIndex(stage) + 1]

\* sections.get(key, default)
SectionsGet(sections, key, default) ==
    IF key \in DOMAIN sections THEN sections[key] ELSE default

\* the argument a stage's extractor is called with
StageInput(stage, text, sections) ==
    CASE stage \in {"sections", "name", "email", "phone"} -> text
      [] stage = "skills" -> SectionsGet(sections, "skills", text)
      [] OTHER -> SectionsGet(sections, stage, <<>>)

\* what the try block of a field assigns when nothing is raised
StageValue(stage, input, nlp) ==
    CASE stage = "name" ->
            (LET name == extract_name(input, nlp.persons)
             IN  IF name = <<>> THEN T_Unknown ELSE name)
      [] stage = "email" -> extract_email(input)
      [] stage = "phone" -> extract_phone(input)
      [] stage = "skills" -> extract_skills(input)
      [] stage = "experience" ->
            (LET experience == extract_experience(input, nlp.orgs)
             IN  IF experience.roles = <<>> THEN Experience(0, <<>>)
                 ELSE experience)
      [] stage = "education" -> extract_education(input)
      [] stage = "projects" -> extract_projects(input)
      [] stage = "achievements" -> extract_achievements(input)
      [] stage = "extracurricular" -> extract_extracurricular(input)

\* what the except block of a field assigns
StageDefault(stage) ==
    CASE stage = "name" -> T_Unknown
      [] stage \in {"email", "phone"} -> None
      [] stage = "experience" -> Experience(0, <<>>)
      [] OTHER -> <<>>

SetKey(map, key, value) ==
    [n \in DOMAIN map \cup {key} |-> IF n = key THEN value ELSE map[n]]

NoOutcome == [kind |-> "none", resume |-> <<>>]

Raised(err) == [kind |-> err, resume |-> <<>>]

Returned(resume) == [kind |-> "Resume", resume |-> resume]

(***************************************************************************)
(* validate_resume                                                         *)
(***************************************************************************)
W_Name == "Name not detected - consider checking first line of resume"

W_Email == "Email not found - ensure contact info is clearly visible"

W_Phone == "Phone number not found"

W_NoSkills == "No skills detected - check if resume has a Skills section"

\* f"Only {len(resume.skills)} skill(s) found - ..." for 1 and for 2 skills
W_Only1 == "Only 1 skill(s) found - may need more comprehensive skills list"

W_Only2 == "Only 2 skill(s) found - may need more comprehensive skills list"

W_Fresher == "No experience detected - candidate appears to be a fresher"

W_ZeroYears == "Experience detected but years = 0 - check date parsing"

W_AllInternships == "All roles are internships - candidate is likely a fresher"

W_NoEducation == "No education information found"

W_Critical ==
    "CRITICAL: No data extracted - file may be corrupted or format unsupported"

\* a variant of the last test that leaves the projects out
AllFieldsEmpty_ButProjects(resume) ==
    /\ resume.skills = <<>>
    /\ resume.experience.roles = <<>>
    /\ resume.education = <<>>

\* not resume.skills and not resume.experience.roles and not
\* resume.education and not resume.projects
AllFieldsEmpty(resume) ==
    /\ resume.skills = <<>>
    /\ resume.experience.roles = <<>>
    /\ resume.education = <<>>
    /\ resume.projects = <<>>

\* not value, for an Optional[str]
Missing(value) == ~value.some \/ value.text = <<>>

WarnIf(cond, warning) == IF cond THEN <<warning>> ELSE <<>>

\* the warnings, in the order the checks append them
validate_resume(resume) ==
    WarnIf(resume.name = <<>> \/ resume.name = T_Unknown, W_Name)
    \o WarnIf(Missing(resume.email), W_Email)
    \o WarnIf(Missing(resume.phone), W_Phone)
    \o (IF Len(resume.skills) = 0 THEN <<W_NoSkills>>
        ELSE IF Len(resume.skills) < 3
        THEN <<IF Len(resume.skills) = 1 THEN W_Only1 ELSE W_Only2>>
        ELSE <<>>)
    \o (IF resume.experience.years = 0 /\ resume.experience.roles = <<>>
        THEN <<W_Fresher>>
        ELSE IF resume.experience.years = 0 /\ resume.experience.roles # <<>>
        THEN <<W_ZeroYears>>
        ELSE <<>>)
    \o WarnIf(/\ resume.experience.roles # <<>>
              /\ AllInternships(resume.experience.roles), W_AllInternships)
    \o WarnIf(Len(resume.education) = 0, W_NoEducation)
    \o WarnIf(AllFieldsEmpty(resume), W_Critical)

(***************************************************************************)
(* Parse runs: parse_resume_to_model on a text file, an unexpected         *)
(* exception being possible in section detection and in every extractor    *)
(***************************************************************************)
MaxParts == 2

MaxFaults == 1

T_JaneDoe ==
    <<"J","a","n","e"," ","D","o","e">>

P_Profile ==
    <<"J","a","n","e"," ","D","o","e","\n","j","a","n","e","@","x",".","i",
      "o","\n","B","u","i","l","d","s"," ","r","e","l","i","a","b","l","e",
      " ","d","a","t","a"," ","s","y","s","t","e","m","s"," ","f","o","r",
      " ","l","a","r","g","e"," ","t","e","a","m","s",".">>

P_BadEmail ==
    <<"j",".",".","d","@","x",".","i","o">>

P_Skills ==
    <<"S","K","I","L","L","S","\n","P","y","t","h","o","n",","," ","S","Q",
      "L">>

P_Experience ==
    <<"E","x","p","e","r","i","e","n","c","e",":","\n","D","a","t","a"," ",
      "I","n","t","e","r","n","\n","J","a","n"," ","2","0","1","8"," ","-",
      " ","J","a","n"," ","2","0","2","0">>

Parts == {P_Profile, P_BadEmail, P_Skills, P_Experience}

\* the documents of at most n parts, each part on lines of its own
RECURSIVE Documents(_)
Documents(n) ==
    IF n = 0 THEN {<<>>}
    ELSE LET prev == Documents(n - 1)
         IN  prev \cup {IF d = <<>> THEN q ELSE d \o <<"\n">> \o q :
                            d \in prev, q \in Parts}

ParseFiles ==
    {TextFile(d, ".txt") : d \in Documents(MaxParts)}
    \cup {TextFile(<<" ">>, ".txt"), MissingFile}
    \cup {Unstattable(TextFile(P_Profile, ".txt")),
          Unstattable(PdfFile(<<Ok(P_Profile)>>, FALSE)),
          PdfFile(<<Ok(P_Profile)>>, FALSE)}

NlpModels == {[persons |-> {T_JaneDoe}, orgs |-> {T_AcmeCorp}]}

InitParse ==
    /\ IdleClean
    /\ IdleSections
    /\ IdleExp
    /\ IdleSkills
    /\ IdleDates
    /\ IdleLists
    /\ IdleEdu
    /\ IdleWarn
    /\ IdleVal
    /\ IdleMatch
    /\ IdleDb
    /\ IdleName
    /\ IdleRetry
    /\ IdleBatch
    /\ IdleApi
    /\ pFile \in ParseFiles
    /\ pNlp \in NlpModels
    /\ pRead = NoResult
    /\ pSections = EmptyMap
    /\ pInput = EmptyMap
    /\ pFields = EmptyMap
    /\ pThrown = {}
    /\ pResume = EmptyMap
    /\ pOutcome = NoOutcome
    /\ ppc = "read"

\* text = read_document(file_path); FileReadError is raised again, any
\* other exception leaves as ParserError
ReadFile ==
    /\ ppc = "read"
    /\ pRead' = read_document(pFile)
    /\ IF pRead'.kind = "ok" THEN ppc' = "length" /\ UNCHANGED pOutcome
       ELSE /\ ppc' = "done"
            /\ pOutcome' = Raised(IF pRead'.kind = "FileReadError"
                                  THEN "FileReadError" ELSE "ParserError")
    /\ UNCHANGED <<pFile, pNlp, pSections, pInput, pFields, pThrown, pResume,
                   cleanVars, sectVars, expVars, skillVars, dateVars,
                   listVars, eduVars, warnVars, valVars, matchVars, dbVars,
                   nameVars, retryVars, batchVars, apiVars>>

CheckLength ==
    /\ ppc = "length"
    /\ IF TooShort(pRead.text)
       THEN ppc' = "done" /\ pOutcome' = Raised("ValidationError")
       ELSE ppc' = "sections" /\ UNCHANGED pOutcome
    /\ UNCHANGED <<pFile, pNlp, pRead, pSections, pInput, pFields, pThrown,
                   pResume, cleanVars, sectVars, expVars, skillVars,
                   dateVars, listVars, eduVars, warnVars, valVars, matchVars,
                   dbVars, nameVars, retryVars, batchVars, apiVars>>

DetectSections ==
    /\ ppc = "sections"
    /\ pInput' = SetKey(pInput, "sections", pRead.text)
    /\ \/ pSections' = detect_sections(pRead.text) /\ UNCHANGED pThrown
       \/ /\ Cardinality(pThrown) < MaxFaults
          /\ pSections' = EmptyMap
          /\ pThrown' = pThrown \cup {"sections"}
    /\ ppc' = AfterStage("sections")
    /\ UNCHANGED <<pFile, pNlp, pRead, pFields, pResume, pOutcome,
                   cleanVars, sectVars, expVars, skillVars, dateVars,
                   listVars, eduVars, warnVars, valVars, matchVars, dbVars,
                   nameVars, retryVars, batchVars, apiVars>>

\* one try/except block of a field: the extractor returns, or raises and the
\* field takes its default
RunExtractor(stage) ==
    /\ ppc = stage
    /\ pInput' = SetKey(pInput, stage, StageInput(stage, pRead.text, pSections))
    /\ \/ /\ pFields' = SetKey(pFields, stage,
                               StageValue(stage, pInput'[stage], pNlp))
          /\ UNCHANGED pThrown
       \/ /\ Cardinality(pThrown) < MaxFaults
          /\ pFields' = SetKey(pFields, stage, StageDefault(stage))
          /\ pThrown' = pThrown \cup {stage}
    /\ ppc' = AfterStage(stage)
    /\ UNCHANGED <<pFile, pNlp, pRead, pSections, pResume, pOutcome,
                   cleanVars, sectVars, expVars, skillVars, dateVars,
                   listVars, eduVars, warnVars, valVars, matchVars, dbVars,
                   nameVars, retryVars, batchVars, apiVars>>

ExtractName == RunExtractor("name")

ExtractEmail == RunExtractor("email")

ExtractPhone == RunExtractor("phone")

ExtractSkills == RunExtractor("skills")

ExtractExperienceField == RunExtractor("experience")

ExtractEducation == RunExtractor("education")

ExtractProjects == RunExtractor("projects")

ExtractAchievements == RunExtractor("achievements")

ExtractExtracurricular == RunExtractor("extracurricular")

\* resume = Resume(name=..., ..., raw_text=text): the model validates the
\* e-mail address, and a failure leaves as ParserError
CreateResume ==
    /\ ppc = "assemble"
    /\ IF pFields["email"].some /\ ~EmailStrAccepts(pFields["email"].text)
       THEN /\ pOutcome' = Raised("ParserError")
            /\ ppc' = "done"
            /\ UNCHANGED pResume
       ELSE /\ pResume' = SetKey(pFields, "raw_text", pRead.text)
            /\ ppc' = "validate"
            /\ UNCHANGED pOutcome
    /\ UNCHANGED <<pFile, pNlp, pRead, pSections, pInput, pFields, pThrown,
                   cleanVars, sectVars, expVars, skillVars, dateVars,
                   listVars, eduVars, warnVars, valVars, matchVars, dbVars,
                   nameVars, retryVars, batchVars, apiVars>>

\* validate_resume(resume), whose return value is not assigned, and return
\* resume
ValidateAndReturn ==
    /\ ppc = "validate"
    /\ pWarnings' = validate_resume(pResume)
    /\ pOutcome' = Returned(pResume)
    /\ ppc' = "done"
    /\ UNCHANGED <<pFile, pNlp, pRead, pSections, pInput, pFields, pThrown,
                   pResume, cleanVars, sectVars, expVars, skillVars,
                   dateVars, listVars, eduVars, valVars, matchVars, dbVars,
                   nameVars, retryVars, batchVars, apiVars>>

NextParse ==
    \/ ReadFile
    \/ CheckLength
    \/ DetectSections
    \/ ExtractName
    \/ ExtractEmail
    \/ ExtractPhone
    \/ ExtractSkills
    \/ ExtractExperienceField
    \/ ExtractEducation
    \/ ExtractProjects
    \/ ExtractAchievements
    \/ ExtractExtracurricular
    \/ CreateResume
    \/ ValidateAndReturn

SpecParse == InitParse /\ [][NextParse]_vars

\* the read failed, or the text read is shorter than the minimum
FatalRead == pRead.kind = "FileReadError"

FatalLength ==
    /\ pRead.kind = "ok"
    /\ ppc # "length"
    /\ (pRead.text = <<>> \/ Len(Strip(pRead.text)) < MinTextLen)

\* C1: when read_document fails with FileReadError or the text is shorter
\* than 50 characters, the call ends with that error (FileReadError,
\* ValidationError), neither section detection nor any extractor has run
\* and no record, partial or whole, exists
C1_FatalBeforeExtraction ==
    /\ FatalRead =>
        /\ ppc = "done"
        /\ pOutcome = Raised("FileReadError")
    /\ FatalLength =>
        /\ ppc = "done"
        /\ pOutcome = Raised("ValidationError")
    /\ (FatalRead \/ FatalLength) =>
        /\ DOMAIN pInput = {}
        /\ DOMAIN pFields = {}
        /\ pThrown = {}
        /\ pSections = EmptyMap
        /\ pResume = EmptyMap

C1_Witness ==
    /\ ppc = "done"
    /\ pRead.kind = "ok"
    /\ pRead.text # <<>>
    /\ Len(Strip(pRead.text)) < MinTextLen
    /\ pOutcome = Raised("ValidationError")
    /\ DOMAIN pInput = {}

\* C2: once the read and the length check have passed, the parse returns a
\* record; a field whose extractor failed holds its default and every other
\* field holds the value its extractor gives
C2_FieldFailureDegrades ==
    (ppc = "done" /\ pRead.kind = "ok" /\ ~TooShort(pRead.text)) =>
        /\ pOutcome.kind = "Resume"
        /\ \A f \in FieldNames :
            pOutcome.resume[f] =
                IF f \in pThrown THEN StageDefault(f)
                ELSE StageValue(f, pInput[f], pNlp)

\* the categories whose extractor reads a section
Categories ==
    {"skills", "experience", "education", "projects", "achievements",
     "extracurricular"}

\* C9: a category without a header in the section map has its extractor run
\* on the whole cleaned document
C9_FallbackToWholeDocument ==
    \A c \in Categories \cap DOMAIN pInput :
        c \notin DOMAIN pSections => pInput[c] = pRead.text
(***************************************************************************)
(* Skill taxonomy matching: fuzzy_match, semantic_skill_matcher and        *)
(* extract_skills                                                          *)
(***************************************************************************)
\* the entries of SKILL_TAXONOMY the runs draw on: canonical name, variants
SKILL_TAXONOMY ==
    << [canonical |-> <<"r","e","a","c","t">>,
        variants |-> <<<<"r","e","a","c","t">>, <<"r","e","a","c","t","j","s">>, <<"r","e","a","c","t",".","j","s">>>>],
       [canonical |-> <<"n","o","d","e",".","j","s">>,
        variants |-> <<<<"n","o","d","e">>, <<"n","o","d","e","j","s">>, <<"n","o","d","e",".","j","s">>>>],
       [canonical |-> <<"p","h","p">>,
        variants |-> <<<<"p","h","p">>, <<"p","h","p","7">>, <<"p","h","p","8">>>>] >>

\* str.title(): a letter is upper case after a character that is no letter
\* (or at the start) and lower case after a letter
Title(s) ==
    [k \in 1..Len(s) |->
        IF k = 1 \/ s[k - 1] \notin Letters THEN Upper(s[k]) ELSE Lower(s[k])]

\* the length of the common run of a from i and b from j, inside the ranges
RunLength(a, b, i, ahi, j, bhi) ==
    LET n == MinOf({ahi - i + 1, bhi - j + 1})
        diff == {k \in 0..(n - 1) : a[i + k] # b[j + k]}
    IN  IF diff = {} THEN n ELSE MinOf(diff)

\* SequenceMatcher.find_longest_match(alo, ahi, blo, bhi): the longest
\* block, the earliest in a and then the earliest in b among the longest
LongestMatch(a, b, alo, ahi, blo, bhi) ==
    LET size == MaxOf({0} \cup {RunLength(a, b, i, ahi, j, bhi) :
                                    i \in alo..ahi, j \in blo..bhi})
        i == MinOf({x \in alo..ahi :
                        \E y \in blo..bhi : RunLength(a, b, x, ahi, y, bhi) = size})
        j == MinOf({y \in blo..bhi : RunLength(a, b, i, ahi, y, bhi) = size})
    IN  IF size = 0 THEN [i |-> alo, j |-> blo, size |-> 0]
        ELSE [i |-> i, j |-> j, size |-> size]

\* the characters in the matching blocks of SequenceMatcher.get_matching_blocks
RECURSIVE MatchedChars(_, _, _, _, _, _)
MatchedChars(a, b, alo, ahi, blo, bhi) ==
    IF alo > ahi \/ blo > bhi THEN 0
    ELSE LET m == LongestMatch(a, b, alo, ahi, blo, bhi)
         IN  IF m.size = 0 THEN 0
             ELSE m.size
                  + MatchedChars(a, b, alo, m.i - 1, blo, m.j - 1)
                  + MatchedChars(a, b, m.i + m.size, ahi, m.j + m.size, bhi)

\* fuzzy_match(text, target, threshold=0.85):
\* SequenceMatcher(None, text.lower(), target.lower()).ratio() >= 0.85, the
\* ratio being 2.0 * matched / (len(a) + len(b)) and 1.0 for two empty strings
fuzzy_match(text, target) ==
    LET a == LowerSeq(text)
        b == LowerSeq(target)
    IN  IF Len(a) + Len(b) = 0 THEN TRUE
        ELSE 40 * MatchedChars(a, b, 1, Len(a), 1, Len(b)) >= 17 * (Len(a) + Len(b))

\* semantic_skill_matcher: the canonical names, in title case, of the
\* entries with a variant contained in the lower-cased text or close to it
semantic_skill_matcher(text) ==
    LET text_lower == LowerSeq(text)
    IN  {Title(SKILL_TAXONOMY[e].canonical) :
            e \in {e \in 1..Len(SKILL_TAXONOMY) :
                    \E v \in 1..Len(SKILL_TAXONOMY[e].variants) :
                        \/ Contains(text_lower, SKILL_TAXONOMY[e].variants[v])
                        \/ fuzzy_match(SKILL_TAXONOMY[e].variants[v], text_lower)}}

SkillPrefixes ==
    { <<"p","r","o","f","i","c","i","e","n","t"," ","i","n">>,
      <<"e","x","p","e","r","i","e","n","c","e","d"," ","w","i","t","h">>,
      <<"f","a","m","i","l","i","a","r"," ","w","i","t","h">>,
      <<"k","n","o","w","l","e","d","g","e"," ","o","f">>,
      <<"e","x","p","e","r","t","i","s","e"," ","i","n">> }

\* (?:proficient in|experienced with|familiar with|knowledge of|expertise in)[\s:]+
SkillPrefixEnd(s, i) ==
    LET fits == {q \in SkillPrefixes : LitAt(s, i, q)}
        q == CHOOSE q \in fits : TRUE
        e == RunEnd(s, i + Len(q), Whitespace \cup {":"})
    IN  IF fits = {} THEN 0
        ELSE IF e >= i + Len(q) THEN e ELSE 0

\* re.sub(prefixes, '', text, flags=re.IGNORECASE)
RECURSIVE StripSkillPrefixes(_, _)
StripSkillPrefixes(s, i) ==
    LET hits == {j \in i..Len(s) : SkillPrefixEnd(s, j) > 0}
    IN  IF hits = {} THEN SubSeq(s, i, Len(s))
        ELSE SubSeq(s, i, MinOf(hits) - 1)
             \o StripSkillPrefixes(s, SkillPrefixEnd(s, MinOf(hits)) + 1)

ItemDelimiters == {",", Bullet, "|", "/", "\n"}

\* re.split(r'[,•|/\n]+', text)
RECURSIVE SplitItems(_)
SplitItems(s) ==
    LET cuts == {k \in 1..Len(s) : s[k] \in ItemDelimiters}
    IN  IF cuts = {} THEN <<s>>
        ELSE <<SubSeq(s, 1, MinOf(cuts) - 1)>>
             \o SplitItems(SubSeq(s, RunEnd(s, MinOf(cuts), ItemDelimiters) + 1,
                                  Len(s)))

\* what one item of the split adds to found_skills: the item's own matches,
\* and for an item under 30 characters those of its NOUN/PROPN tokens longer
\* than 2 characters
ItemSkills(raw, nouns) ==
    LET stripped == Strip(raw)
        item == DropLeadingBullets(stripped)
    IN  IF stripped = <<>> \/ Len(stripped) < 2 \/ Len(stripped) > 50 THEN {}
        ELSE semantic_skill_matcher(item)
             \cup (IF Len(item) < 30
                   THEN UNION {semantic_skill_matcher(t) :
                                t \in {t \in nouns : Len(t) > 2 /\ Contains(item, t)}}
                   ELSE {})

\* found_skills of extract_skills, nlp holding the tokens the NLP model tags
\* NOUN or PROPN and the entities it labels PRODUCT or ORG
FoundSkills(text, nlp) ==
    LET t == StripSkillPrefixes(text, 1)
        items == SplitItems(t)
    IN  semantic_skill_matcher(t)
        \cup UNION {ItemSkills(items[k], nlp.nouns) : k \in 1..Len(items)}
        \cup UNION {semantic_skill_matcher(e) :
                        e \in {e \in nlp.products : Contains(t, e)}}

\* character order of sorted(): upper case before lower case
CharRank(c) ==
    IF c \in SeqToSet(UpperLetters)
    THEN CHOOSE k \in 1..26 : UpperLetters[k] = c
    ELSE IF c \in SeqToSet(LowerLetters)
    THEN 100 + (CHOOSE k \in 1..26 : LowerLetters[k] = c)
    ELSE 0

StrLess(a, b) ==
    \E k \in 1..(Len(a) + 1) :
        /\ \A j \in 1..(k - 1) : j <= Len(b) /\ a[j] = b[j]
        /\ k <= Len(b)
        /\ (k > Len(a) \/ CharRank(a[k]) < CharRank(b[k]))

\* sorted(list(found_skills))
RECURSIVE SortedList(_)
SortedList(S) ==
    IF S = {} THEN <<>>
    ELSE LET m == CHOOSE a \in S : \A b \in S \ {a} : StrLess(a, b)
         IN  <<m>> \o SortedList(S \ {m})

\* extract_skills with the skills it finds spelled out
extract_skills_found(text, nlp) == SortedList(FoundSkills(text, nlp))
(***************************************************************************)
(* Skill runs: extract_skills on a text of skill names and phrases         *)
(***************************************************************************)
MaxSkillPieces == 2

SkillPieces ==
    { <<"R","e","a","c","t">>,
      <<"R","e","a","c","t","J","S">>,
      <<"r","e","a","c","t",".","j","s">>,
      <<"N","O","D","E">>,
      <<"P","H">>,
      <<"p","r","o","f","i","c","i","e","n","t"," ","i","n"," ">>,
      <<","," ">> }

\* the texts of at most n pieces
RECURSIVE SkillTexts(_)
SkillTexts(n) ==
    IF n = 0 THEN {<<>>}
    ELSE LET prev == SkillTexts(n - 1)
         IN  prev \cup {t \o q : t \in prev, q \in SkillPieces}

SkillNlpModels ==
    { [nouns |-> {}, products |-> {}],
      [nouns |-> {<<"R","e","a","c","t">>}, products |-> {<<"R","e","a","c","t","J","S">>}] }

InitSkills ==
    /\ IdleClean
    /\ IdleSections
    /\ IdleExp
    /\ IdleParse
    /\ IdleDates
    /\ IdleLists
    /\ IdleEdu
    /\ IdleWarn
    /\ IdleVal
    /\ IdleMatch
    /\ IdleDb
    /\ IdleName
    /\ IdleRetry
    /\ IdleBatch
    /\ IdleApi
    /\ kText \in SkillTexts(MaxSkillPieces)
    /\ kNlp \in SkillNlpModels
    /\ kSkills = <<>>
    /\ kpc = "start"

ExtractSkillsFound ==
    /\ kpc = "start"
    /\ kSkills' = extract_skills_found(kText, kNlp)
    /\ kpc' = "done"
    /\ UNCHANGED <<kText, kNlp, cleanVars, sectVars, expVars, parseVars, dateVars,
                   listVars, eduVars, warnVars, valVars, matchVars, dbVars,
                   nameVars, retryVars, batchVars, apiVars>>

NextSkills == ExtractSkillsFound

SpecSkills == InitSkills /\ [][NextSkills]_vars

\* the taxonomy entries with a variant contained, in any letter case, in text
EntriesIn(text) ==
    {e \in 1..Len(SKILL_TAXONOMY) :
        \E v \in 1..Len(SKILL_TAXONOMY[e].variants) :
            Contains(LowerSeq(text), SKILL_TAXONOMY[e].variants[v])}

TimesListed(name, list) == Cardinality({k \in 1..Len(list) : list[k] = name})

\* C11: a text containing, in any letter case, a variant of a taxonomy skill
\* makes extract_skills list that skill's canonical title-case name exactly
\* once
C11_VariantsCanonical ==
    kpc = "done" =>
        \A e \in EntriesIn(kText) :
            TimesListed(Title(SKILL_TAXONOMY[e].canonical), kSkills) = 1
(***************************************************************************)
(* parse_dates_and_calculate_years on texts of date ranges                 *)
(***************************************************************************)
R_TwoYears == <<"J","a","n"," ","2","0","2","0"," ","-"," ","J","a","n"," ","2","0","2","2">>

R_Years == <<"2","0","2","0"," ","t","o"," ","2","0","2","3">>

R_Open == <<"J","u","n"," ","2","0","2","4"," ","-"," ","P","r","e","s","e","n","t">>

R_ShortYears == <<"J","a","n"," ","2","0"," ","-"," ","J","a","n"," ","2","2">>

R_Reversed == <<"2","0","2","3"," ","-"," ","2","0","2","0">>

R_ReversedMonths == <<"J","a","n"," ","2","0","2","2"," ","-"," ","J","a","n"," ","2","0","2","0">>

R_Unparseable == <<"1","3"," ","2","0","2","0"," ","-"," ","J","a","n"," ","2","0","2","2">>

\* the ranges whose end is not after their start, or whose start is no date
ZeroRanges == {R_Reversed, R_ReversedMonths, R_Unparseable}

DateRanges == {R_TwoYears, R_Years, R_Open, R_ShortYears} \cup ZeroRanges

\* the longest text of ranges, in ranges
MaxRanges == 2

\* the texts of 1..n ranges, one per line
RECURSIVE DateTexts(_)
DateTexts(n) ==
    IF n = 1 THEN DateRanges
    ELSE DateTexts(n - 1)
         \cup {t \o <<"\n">> \o r : t \in DateTexts(n - 1), r \in DateRanges}

InitDates ==
    /\ IdleClean
    /\ IdleSections
    /\ IdleExp
    /\ IdleParse
    /\ IdleSkills
    /\ IdleLists
    /\ IdleEdu
    /\ IdleWarn
    /\ IdleVal
    /\ IdleMatch
    /\ IdleDb
    /\ IdleName
    /\ IdleRetry
    /\ IdleBatch
    /\ IdleApi
    /\ dText \in DateTexts(MaxRanges)
    /\ dYears = 0
    /\ dpc = "start"

ParseDatesAndCalculateYears ==
    /\ dpc = "start"
    /\ dYears' = parse_dates_and_calculate_years(dText)
    /\ dpc' = "done"
    /\ UNCHANGED <<dText, cleanVars, sectVars, expVars, parseVars, skillVars,
                   listVars, eduVars, warnVars, valVars, matchVars, dbVars,
                   nameVars, retryVars, batchVars, apiVars>>

NextDates == ParseDatesAndCalculateYears

SpecDates == InitDates /\ [][NextDates]_vars

\* C12: parse_dates_and_calculate_years never returns a negative value; a
\* range that is reversed or does not parse adds nothing to the total, alone
\* or after other ranges, and "Jan 2020 - Jan 2022" gives 2.0 years.
C12_RangesFloorAtZero ==
    dpc = "done" =>
        /\ dYears >= 0
        /\ dText = R_TwoYears => dYears = 20
        /\ dText \in ZeroRanges => dYears = 0
        /\ \A r \in ZeroRanges :
               parse_dates_and_calculate_years(dText \o <<"\n">> \o r) = dYears

C12_Witness ==
    /\ dpc = "done"
    /\ dText = R_TwoYears \o <<"\n">> \o R_Reversed
    /\ dYears = 20
(***************************************************************************)
(* extract_achievements and extract_extracurricular                        *)
(***************************************************************************)
\* re.split(r'\n\s*[-•*]\s*|\n', text): a newline with the bullet that
\* follows it and the blanks around the bullet, or else the newline alone
RECURSIVE SplitBulletItems(_)
SplitBulletItems(s) ==
    LET nl == {i \in 1..Len(s) : s[i] = "\n"}
    IN  IF nl = {} THEN <<s>>
        ELSE LET i == MinOf(nl)
                 w == RunEnd(s, i + 1, Whitespace)
                 e == IF w + 1 <= Len(s) /\ s[w + 1] \in BulletChars
                      THEN RunEnd(s, w + 2, Whitespace)
                      ELSE i
             IN  <<SubSeq(s, 1, i - 1)>> \o SplitBulletItems(SubSeq(s, e + 1, Len(s)))

CueWords == {<<"i","m","p","r","o","v","e","d">>,
             <<"i","n","c","r","e","a","s","e","d">>,
             <<"r","e","d","u","c","e","d">>,
             <<"a","c","h","i","e","v","e","d">>}

\* re.search(r'\d+%|\d+\+|\d+x|improved|increased|reduced|achieved', item,
\* re.IGNORECASE)
QuantifiableCue(item) ==
    \E i \in 1..Len(item) :
        \/ /\ item[i] \in Digits
           /\ i + 1 <= Len(item)
           /\ item[i + 1] \in {"%", "+", "x", "X"}
        \/ \E w \in CueWords : LitAt(item, i, w)

leadership_keywords ==
    {<<"p","r","e","s","i","d","e","n","t">>, <<"v","i","c","e"," ","p","r","e","s","i","d","e","n","t">>,
     <<"t","r","e","a","s","u","r","e","r">>, <<"s","e","c","r","e","t","a","r","y">>,
     <<"c","a","p","t","a","i","n">>, <<"l","e","a","d">>, <<"h","e","a","d">>,
     <<"f","o","u","n","d","e","r">>, <<"c","o","-","f","o","u","n","d","e","r">>,
     <<"v","o","l","u","n","t","e","e","r">>, <<"m","e","n","t","o","r">>,
     <<"o","r","g","a","n","i","z","e","r">>, <<"c","o","o","r","d","i","n","a","t","o","r">>}

\* any(keyword in item.lower() for keyword in leadership_keywords)
LeadershipCue(item) ==
    \E i \in 1..Len(item) : \E w \in leadership_keywords : LitAt(item, i, w)

HasPriority(fn, item) ==
    IF fn = "achievements" THEN QuantifiableCue(item) ELSE LeadershipCue(item)

\* the shortest stripped item kept
MinItemLen(fn) == IF fn = "achievements" THEN 10 ELSE 5

\* a variant of the loop that appends every item it keeps
RECURSIVE CollectItems_AppendOnly(_, _, _)
CollectItems_AppendOnly(fn, items, acc) ==
    IF items = <<>> THEN acc
    ELSE LET stripped == Strip(items[1])
             item == DropLeadingBullets(stripped)
         IN  IF Len(stripped) < MinItemLen(fn)
             THEN CollectItems_AppendOnly(fn, Tail(items), acc)
             ELSE CollectItems_AppendOnly(fn, Tail(items), Append(acc, item))

\* the loop over the split items: an item too short is skipped, one with a
\* priority cue is inserted at the front, any other is appended
RECURSIVE CollectItems(_, _, _)
CollectItems(fn, items, acc) ==
    IF items = <<>> THEN acc
    ELSE LET stripped == Strip(items[1])
             item == DropLeadingBullets(stripped)
         IN  IF Len(stripped) < MinItemLen(fn)
             THEN CollectItems(fn, Tail(items), acc)
             ELSE IF HasPriority(fn, item)
             THEN CollectItems(fn, Tail(items), <<item>> \o acc)
             ELSE CollectItems(fn, Tail(items), Append(acc, item))

\* the [:10] of both extractors
ListCap == 10

FirstN(list, n) == SubSeq(list, 1, IF Len(list) < n THEN Len(list) ELSE n)

extract_achievements_items(text) ==
    FirstN(CollectItems("achievements", SplitBulletItems(text), <<>>), ListCap)

extract_extracurricular_items(text) ==
    FirstN(CollectItems("extracurricular", SplitBulletItems(text), <<>>), ListCap)
(***************************************************************************)
(* The list extractors on sections of lettered items                       *)
(***************************************************************************)
\* an item with no cue, one with a cue of both extractors, and one with a
\* cue that is too short for extract_achievements
B_Plain == <<"c","h","e","s","s"," ","c","l","u","b">>

B_Cue == <<"l","e","a","d",","," ","i","m","p","r","o","v","e","d">>

B_Short == <<"l","e","a","d"," ","2","x">>

\* the most items a section has
MaxItems == 11

\* the most items of a section that carry the cue
MaxMarked == 2

\* the sets of at most MaxMarked of the positions 1..n
Markings(n) == {T \in SUBSET (1..n) : Cardinality(T) <= MaxMarked}

\* the k-th item: a bullet on every second line, the item's letter, its body
ItemLine(k, body) ==
    (IF k % 2 = 1 THEN <<"-", " ">> ELSE <<>>) \o <<LowerLetters[k], " ">> \o body

\* the section of n items, each on a line of its own, those at the
\* positions cues carrying the cue
RECURSIVE SectionText(_, _)
SectionText(n, cues) ==
    LET line == ItemLine(n, IF n \in cues THEN B_Cue ELSE B_Plain)
    IN  IF n = 1 THEN line
        ELSE SectionText(n - 1, cues) \o <<"\n">> \o line

\* the sections of up to MaxItems items, with or without a short last item
SectionTexts ==
    UNION {{SectionText(n, cues) \o tail :
               cues \in Markings(n),
               tail \in {<<>>, <<"\n">> \o ItemLine(n + 1, B_Short)}} :
           n \in 1..(MaxItems - 1)}
    \cup {SectionText(MaxItems, cues) : cues \in Markings(MaxItems)}

InitLists ==
    /\ IdleClean
    /\ IdleSections
    /\ IdleExp
    /\ IdleParse
    /\ IdleSkills
    /\ IdleDates
    /\ IdleEdu
    /\ IdleWarn
    /\ IdleVal
    /\ IdleMatch
    /\ IdleDb
    /\ IdleName
    /\ IdleRetry
    /\ IdleBatch
    /\ IdleApi
    /\ aText \in SectionTexts
    /\ aFn = "none"
    /\ aItems = <<>>
    /\ apc = "start"

ListAchievements ==
    /\ apc = "start"
    /\ aFn' = "achievements"
    /\ aItems' = extract_achievements_items(aText)
    /\ apc' = "done"
    /\ UNCHANGED <<aText, cleanVars, sectVars, expVars, parseVars, skillVars,
                   dateVars, eduVars, warnVars, valVars, matchVars, dbVars,
                   nameVars, retryVars, batchVars, apiVars>>

ListExtracurricular ==
    /\ apc = "start"
    /\ aFn' = "extracurricular"
    /\ aItems' = extract_extracurricular_items(aText)
    /\ apc' = "done"
    /\ UNCHANGED <<aText, cleanVars, sectVars, expVars, parseVars, skillVars,
                   dateVars, eduVars, warnVars, valVars, matchVars, dbVars,
                   nameVars, retryVars, batchVars, apiVars>>

NextLists == ListAchievements \/ ListExtracurricular

SpecLists == InitLists /\ [][NextLists]_vars

\* the items the extractor that ran keeps, in the order of the section
KeptInOrder == CollectItems_AppendOnly(aFn, SplitBulletItems(aText), <<>>)

\* the items of the section: its lines without bullets, the empty ones left out
SectionItems ==
    LET split == SplitBulletItems(aText)
    IN  SelectSeq([k \in 1..Len(split) |-> DropLeadingBullets(Strip(split[k]))],
                  LAMBDA x : x # <<>>)

PositionIn(list, x) == MinOf({k \in 1..Len(list) : list[k] = x})

\* C13: the list returned has at most 10 items, no item without a priority
\* cue stands before one with a cue, and the cap is taken after the
\* reordering: the list is as long as the cap allows and a priority item is
\* cut only when every item returned is a priority item.
C13_PriorityFirstCapped ==
    apc = "done" =>
        LET kept == KeptInOrder
            first == [i \in 1..Len(aItems) |-> HasPriority(aFn, aItems[i])]
            cut == {k \in 1..Len(kept) : kept[k] \notin SeqToSet(aItems)}
        IN  /\ Len(aItems) <= ListCap
            /\ \A i, j \in 1..Len(aItems) : i < j /\ first[j] => first[i]
            /\ Len(aItems) = (IF Len(kept) < ListCap THEN Len(kept) ELSE ListCap)
            /\ SeqToSet(aItems) \subseteq SeqToSet(kept)
            /\ (\E k \in cut : HasPriority(aFn, kept[k]))
                   => \A i \in 1..Len(aItems) : first[i]

\* a section of more than 10 kept items whose 11th has a cue: it is returned
\* first and the 10th item is cut
C13_Witness ==
    /\ apc = "done"
    /\ aFn = "achievements"
    /\ Len(KeptInOrder) > ListCap
    /\ HasPriority(aFn, KeptInOrder[ListCap + 1])
    /\ aItems[1] = KeptInOrder[ListCap + 1]
    /\ KeptInOrder[ListCap] \notin SeqToSet(aItems)
    /\ ~HasPriority(aFn, aItems[ListCap])

\* C14: the reordering is stable: two returned items that both have a
\* priority cue, or both have none, stand in the order they had in the
\* section.
C14_StableReordering ==
    apc = "done" =>
        \A i, j \in 1..Len(aItems) :
            /\ i < j
            /\ HasPriority(aFn, aItems[i]) = HasPriority(aFn, aItems[j])
            => PositionIn(KeptInOrder, aItems[i]) < PositionIn(KeptInOrder, aItems[j])

\* C15: no item is filtered out: a section of at most 10 items is returned
\* whole, as a multiset, and a section of more than 10 gives 10 items.
C15_ReordersWithoutFiltering ==
    apc = "done" =>
        /\ Len(SectionItems) <= ListCap =>
               \A x \in SeqToSet(SectionItems) \cup SeqToSet(aItems) :
                   TimesListed(x, aItems) = TimesListed(x, SectionItems)
        /\ Len(SectionItems) > ListCap => Len(aItems) = ListCap
(***************************************************************************)
(* extract_education                                                       *)
(***************************************************************************)
\* (Bachelor'?s?|B\.?Tech|B\.?E\.?|B\.?S\.?|B\.?A\.?|BSc|BA)
BachelorFamily ==
    Alt(<< <<One({"b", "B"}), One({"a", "A"}), One({"c", "C"}),
           One({"h", "H"}), One({"e", "E"}), One({"l", "L"}),
           One({"o", "O"}), One({"r", "R"}), Opt({"'"}),
           Opt({"s", "S"})>>,
         <<One({"b", "B"}), Opt({"."}), One({"t", "T"}),
           One({"e", "E"}), One({"c", "C"}), One({"h", "H"})>>,
         <<One({"b", "B"}), Opt({"."}), One({"e", "E"}), Opt({"."})>>,
         <<One({"b", "B"}), Opt({"."}), One({"s", "S"}), Opt({"."})>>,
         <<One({"b", "B"}), Opt({"."}), One({"a", "A"}), Opt({"."})>>,
         <<One({"b", "B"}), One({"s", "S"}), One({"c", "C"})>>,
         <<One({"b", "B"}), One({"a", "A"})>> >>)

\* (Master'?s?|M\.?Tech|M\.?E\.?|M\.?S\.?|M\.?A\.?|MBA|MSc|MA)
MasterFamily ==
    Alt(<< <<One({"m", "M"}), One({"a", "A"}), One({"s", "S"}),
           One({"t", "T"}), One({"e", "E"}), One({"r", "R"}),
           Opt({"'"}), Opt({"s", "S"})>>,
         <<One({"m", "M"}), Opt({"."}), One({"t", "T"}),
           One({"e", "E"}), One({"c", "C"}), One({"h", "H"})>>,
         <<One({"m", "M"}), Opt({"."}), One({"e", "E"}), Opt({"."})>>,
         <<One({"m", "M"}), Opt({"."}), One({"s", "S"}), Opt({"."})>>,
         <<One({"m", "M"}), Opt({"."}), One({"a", "A"}), Opt({"."})>>,
         <<One({"m", "M"}), One({"b", "B"}), One({"a", "A"})>>,
         <<One({"m", "M"}), One({"s", "S"}), One({"c", "C"})>>,
         <<One({"m", "M"}), One({"a", "A"})>> >>)

\* (Ph\.?D\.?|Doctorate)
DoctorateFamily ==
    Alt(<< <<One({"p", "P"}), One({"h", "H"}), Opt({"."}),
           One({"d", "D"}), Opt({"."})>>,
         <<One({"d", "D"}), One({"o", "O"}), One({"c", "C"}),
           One({"t", "T"}), One({"o", "O"}), One({"r", "R"}),
           One({"a", "A"}), One({"t", "T"}), One({"e", "E"})>> >>)

\* (Associate'?s?|A\.?S\.?|A\.?A\.?)
AssociateFamily ==
    Alt(<< <<One({"a", "A"}), One({"s", "S"}), One({"s", "S"}),
           One({"o", "O"}), One({"c", "C"}), One({"i", "I"}),
           One({"a", "A"}), One({"t", "T"}), One({"e", "E"}),
           Opt({"'"}), Opt({"s", "S"})>>,
         <<One({"a", "A"}), Opt({"."}), One({"s", "S"}), Opt({"."})>>,
         <<One({"a", "A"}), Opt({"."}), One({"a", "A"}), Opt({"."})>> >>)

L_in == <<"i","n">>

L_degree_in == <<"d","e","g","r","e","e"," ","i","n">>

\* the four degree patterns: the family (group 1), \s*, an optional
\* connective, \s*, and the field ([A-Za-z\s&]+) (group 2), under
\* re.IGNORECASE
DegreePattern(family, connectives) ==
    << family, Star(Whitespace), Alt(connectives \o << <<>> >>), Star(Whitespace),
       Plus(Letters \cup Whitespace \cup {"&"}) >>

degree_patterns ==
    << DegreePattern(BachelorFamily, <<LitI(L_of), LitI(L_in), LitI(L_degree_in)>>),
       DegreePattern(MasterFamily, <<LitI(L_of), LitI(L_in), LitI(L_degree_in)>>),
       DegreePattern(DoctorateFamily, <<LitI(L_of), LitI(L_in)>>),
       DegreePattern(AssociateFamily, <<LitI(L_of), LitI(L_in)>>) >>

\* ([A-Z][A-Za-z\s,&]+(?:University|College|Institute|School)[A-Za-z\s,]*)
InstitutionPattern ==
    << One(SeqToSet(UpperLetters)),
       Plus(Letters \cup Whitespace \cup {",", "&"}),
       Alt(<< LitC(<<"U","n","i","v","e","r","s","i","t","y">>),
              LitC(<<"C","o","l","l","e","g","e">>),
              LitC(<<"I","n","s","t","i","t","u","t","e">>),
              LitC(<<"S","c","h","o","o","l">>) >>),
       Star(Letters \cup Whitespace \cup {","}) >>

\* \b(19|20)\d{2}\b
YearPattern ==
    << WordB, Alt(<< LitC(<<"1","9">>), LitC(<<"2","0">>) >>), Rep(Digits, 2, 2),
       WordB >>

P_Degree == <<"D","e","g","r","e","e">>

P_Field == <<"F","i","e","l","d"," ","o","f"," ","s","t","u","d","y">>

P_Institution == <<"I","n","s","t","i","t","u","t","i","o","n">>

\* the degree and field of the first degree pattern, from the k-th on, that
\* matches the block; both empty when none does
RECURSIVE DegreeAndField(_, _)
DegreeAndField(block, k) ==
    IF k > Len(degree_patterns) THEN [degree |-> <<>>, field |-> <<>>]
    ELSE LET match == ReSearch(degree_patterns[k], block, 1)
         IN  IF match.found
             THEN [degree |-> Strip(GroupText(block, match, 1, 1)),
                   field |-> Strip(GroupText(block, match, 5, 5))]
             ELSE DegreeAndField(block, k + 1)

\* the entries of the blocks, in order: a block with neither a degree nor an
\* institution match adds none
RECURSIVE EducationOfBlocks(_)
EducationOfBlocks(blocks) ==
    IF blocks = <<>> THEN <<>>
    ELSE LET block == blocks[1]
             df == DegreeAndField(block, 1)
             inst_match == ReSearch(InstitutionPattern, block, 1)
             institution == IF inst_match.found
                            THEN Strip(MatchText(block, inst_match)) ELSE <<>>
             year_match == ReSearch(YearPattern, block, 1)
             \* 0: no year (None)
             year == IF year_match.found
                     THEN NumberOf(MatchText(block, year_match)) ELSE 0
             entry == [degree |-> IF df.degree # <<>> THEN df.degree ELSE P_Degree,
                       field |-> IF df.field # <<>> THEN df.field ELSE P_Field,
                       institution |-> IF institution # <<>> THEN institution
                                       ELSE P_Institution,
                       year |-> year]
         IN  IF Strip(block) = <<>> THEN EducationOfBlocks(Tail(blocks))
             ELSE IF df.degree # <<>> \/ institution # <<>>
             THEN <<entry>> \o EducationOfBlocks(Tail(blocks))
             ELSE EducationOfBlocks(Tail(blocks))

extract_education_list(text) == EducationOfBlocks(SplitBlocks(text))
(***************************************************************************)
(* extract_education on sections of catalogued blocks                      *)
(***************************************************************************)
\* the blocks a section is made of, each with what it states: a degree, an
\* institution
E_Stanford == [text |-> <<"S","t","a","n","f","o","r","d"," ","U","n","i","v","e","r","s","i","t","y">>,
               degree |-> FALSE, institution |-> TRUE]

E_Mellon == [text |-> <<"C","a","r","n","e","g","i","e"," ","M","e","l","l","o","n"," ","U","n","i","v","e","r","s","i","t","y">>,
             degree |-> FALSE, institution |-> TRUE]

E_Oxford == [text |-> <<"U","n","i","v","e","r","s","i","t","y"," ","o","f"," ","O","x","f","o","r","d">>,
             degree |-> FALSE, institution |-> TRUE]

E_BTech == [text |-> <<"B",".","T","e","c","h"," ","i","n"," ","C","o","m","p","u","t","e","r"," ","S","c","i","e","n","c","e">>,
            degree |-> TRUE, institution |-> FALSE]

E_Both == [text |-> <<"P","h","D"," ","i","n"," ","P","h","y","s","i","c","s","\n","S","t","a","n","f","o","r","d"," ","U","n","i","v","e","r","s","i","t","y"," ","2","0","1","9">>,
           degree |-> TRUE, institution |-> TRUE]

E_Grade == [text |-> <<"G","P","A"," ","3",".","9">>,
            degree |-> FALSE, institution |-> FALSE]

EduBlocks == {E_Stanford, E_Mellon, E_Oxford, E_BTech, E_Both, E_Grade}

\* the most blocks a section has
MaxBlocks == 3

\* the sections of 1..n blocks, a blank line between two blocks
RECURSIVE EduTexts(_)
EduTexts(n) ==
    IF n = 1 THEN {b.text : b \in EduBlocks}
    ELSE EduTexts(n - 1)
         \cup {t \o <<"\n", "\n">> \o b.text : t \in EduTexts(n - 1), b \in EduBlocks}

InitEdu ==
    /\ IdleClean
    /\ IdleSections
    /\ IdleExp
    /\ IdleParse
    /\ IdleSkills
    /\ IdleDates
    /\ IdleLists
    /\ IdleWarn
    /\ IdleVal
    /\ IdleMatch
    /\ IdleDb
    /\ IdleName
    /\ IdleRetry
    /\ IdleBatch
    /\ IdleApi
    /\ eText \in EduTexts(MaxBlocks)
    /\ eEntries = <<>>
    /\ epc = "start"

ExtractEducationList ==
    /\ epc = "start"
    /\ eEntries' = extract_education_list(eText)
    /\ epc' = "done"
    /\ UNCHANGED <<eText, cleanVars, sectVars, expVars, parseVars, skillVars,
                   dateVars, listVars, warnVars, valVars, matchVars, dbVars,
                   nameVars, retryVars, batchVars, apiVars>>

NextEdu == ExtractEducationList

SpecEdu == InitEdu /\ [][NextEdu]_vars

\* what the k-th block of the section states
StatedIn(text) == CHOOSE b \in EduBlocks : b.text = text

\* C16: extract_education returns one entry for each block that states a
\* degree or an institution and none for any other block; a section that is
\* one institution-only block gives one entry with the placeholders "Degree"
\* and "Field of study"; no entry has placeholders for both degree and
\* institution.
C16_EntryPerRecognisedBlock ==
    epc = "done" =>
        LET blocks == SplitBlocks(eText)
            stated == [k \in 1..Len(blocks) |-> StatedIn(blocks[k])]
        IN  /\ Len(eEntries)
                   = Cardinality({k \in 1..Len(blocks) :
                                     stated[k].degree \/ stated[k].institution})
            /\ (Len(blocks) = 1 /\ stated[1].institution /\ ~stated[1].degree)
                   => /\ Len(eEntries) = 1
                      /\ eEntries[1].degree = P_Degree
                      /\ eEntries[1].field = P_Field
            /\ \A k \in 1..Len(eEntries) :
                   ~(eEntries[k].degree = P_Degree
                        /\ eEntries[k].institution = P_Institution)
(***************************************************************************)
(* The record returned and the validator's warnings                        *)
(***************************************************************************)
\* C17: the record parse_resume_to_model returns carries the list of warnings
\* validate_resume computed for it.
C17_RecordCarriesWarnings ==
    (ppc = "done" /\ pOutcome.kind = "Resume") =>
        /\ "warnings" \in DOMAIN pOutcome.resume
        /\ pOutcome.resume["warnings"] = pWarnings
(***************************************************************************)
(* validate_resume on assembled records                                    *)
(***************************************************************************)
\* the most skills a record lists
MaxListed == 3

V_Role(intern) ==
    [title |-> T_Position, company |-> T_Company, duration |-> <<>>,
     description |-> <<>>, is_internship |-> intern]

\* the lists of n entries of a category
Listed(category, n) == [k \in 1..n |-> [category |-> category, source |-> <<k>>]]

\* the records validate_resume is handed: every combination of a detected or
\* missing name, e-mail and phone, 0..MaxListed skills, no role, an
\* internship or a job, with and without years, and 0 or 1 education entry
\* and project
ValidatedResumes ==
    {[name |-> name, email |-> contact, phone |-> contact,
      skills |-> Listed("skills", n),
      experience |-> experience,
      education |-> Listed("education", e),
      projects |-> Listed("projects", p),
      achievements |-> <<>>, extracurricular |-> <<>>, raw_text |-> <<>>] :
        name \in {T_Unknown, T_JaneDoe},
        contact \in {None, Some(T_JaneDoe)},
        n \in 0..MaxListed,
        experience \in {Experience(0, <<>>),
                        Experience(0, <<V_Role(TRUE)>>),
                        Experience(40, <<V_Role(FALSE)>>)},
        e \in 0..1, p \in 0..1}

InitValidate ==
    /\ IdleClean
    /\ IdleSections
    /\ IdleExp
    /\ IdleParse
    /\ IdleSkills
    /\ IdleDates
    /\ IdleLists
    /\ IdleEdu
    /\ IdleWarn
    /\ IdleMatch
    /\ IdleDb
    /\ IdleName
    /\ IdleRetry
    /\ IdleBatch
    /\ IdleApi
    /\ vResume \in ValidatedResumes
    /\ vWarnings = <<>>
    /\ vpc = "start"

ValidateResume ==
    /\ vpc = "start"
    /\ vWarnings' = validate_resume(vResume)
    /\ vpc' = "done"
    /\ UNCHANGED <<vResume, cleanVars, sectVars, expVars, parseVars, skillVars,
                   dateVars, listVars, eduVars, warnVars, matchVars, dbVars,
                   nameVars, retryVars, batchVars, apiVars>>

NextValidate == ValidateResume

SpecValidate == InitValidate /\ [][NextValidate]_vars

\* C18: validate_resume gives the CRITICAL warning once when skills,
\* experience roles, education and projects are all empty, and not at all
\* when any one of the four is non-empty.
C18_CriticalIffAllEmpty ==
    vpc = "done" =>
        TimesListed(W_Critical, vWarnings)
            = (IF /\ Len(vResume.skills) = 0
                  /\ Len(vResume.experience.roles) = 0
                  /\ Len(vResume.education) = 0
                  /\ Len(vResume.projects) = 0
               THEN 1 ELSE 0)

\* a record with a name and nothing else: the CRITICAL warning is the last
\* of its warnings and is given once
C18_Witness ==
    /\ vpc = "done"
    /\ vResume.name = T_JaneDoe
    /\ AllFieldsEmpty(vResume)
    /\ vWarnings[Len(vWarnings)] = W_Critical
    /\ TimesListed(W_Critical, vWarnings) = 1
(***************************************************************************)
(* matcher.py: anonymize_resume and the prompt of match_resume_to_jd       *)
(***************************************************************************)
\* the characters of raw_text anonymize_resume keeps
PrivacyPrefix == 500

T_Anonymized == "Anonymized Candidate"

T_Truncated == <<".",".","."," ","[","t","r","u","n","c","a","t","e","d"," ","f","o","r"," ","p","r","i","v","a","c","y","]">>

\* anonymize_resume(resume_data): name, email and phone are overwritten and
\* raw_text is cut to its first characters and marked
anonymize_resume(resume_data) ==
    [key \in DOMAIN resume_data |->
        CASE key = "name" -> T_Anonymized
          [] key \in {"email", "phone"} -> None
          [] key = "raw_text" ->
                SubSeq(resume_data[key], 1,
                       IF Len(resume_data[key]) < PrivacyPrefix
                       THEN Len(resume_data[key]) ELSE PrivacyPrefix)
                    \o T_Truncated
          [] OTHER -> resume_data[key]]

\* the keys of a dumped Resume, in the order of its fields
ResumeKeys ==
    << "name", "email", "phone", "skills", "experience", "education",
       "projects", "achievements", "extracurricular", "raw_text" >>

\* json.dumps(data, indent=2): the keys present, in order, each with its value
JsonDumps(data) ==
    LET keys == SelectSeq(ResumeKeys, LAMBDA key : key \in DOMAIN data)
    IN  [k \in 1..Len(keys) |-> <<keys[k], data[keys[k]]>>]

\* build_scoring_prompt with the default weights and role context: the job
\* description and the resume JSON between the fixed parts of the template
build_scoring_prompt(resume_json, jd_text) ==
    << "# JOB DESCRIPTION", jd_text,
       "# CANDIDATE RESUME DATA (Anonymized)", resume_json,
       "# SCORING METHODOLOGY" >>

T_JohnRoe == <<"J","o","h","n"," ","R","o","e">>

T_JaneMail == <<"j","a","n","e","@","x",".","i","o">>

\* a text longer than the prefix kept, ending in the given character
LongText(last) == [k \in 1..(PrivacyPrefix + 1) |->
                      IF k <= PrivacyPrefix THEN "x" ELSE last]

RawTexts == {T_JaneDoe, T_JohnRoe, LongText("a"), LongText("b")}

MatchedResumes ==
    {[name |-> name, email |-> contact, phone |-> None,
      skills |-> skills, experience |-> Experience(0, <<>>),
      education |-> <<>>, projects |-> <<>>, achievements |-> <<>>,
      extracurricular |-> <<>>, raw_text |-> raw_text] :
        name \in {T_JaneDoe, T_JohnRoe},
        contact \in {None, Some(T_JaneMail)},
        skills \in {<<>>, <<"Python">>},
        raw_text \in RawTexts}

JdText == "Data engineer"

InitMatch ==
    /\ IdleClean
    /\ IdleSections
    /\ IdleExp
    /\ IdleParse
    /\ IdleSkills
    /\ IdleDates
    /\ IdleLists
    /\ IdleEdu
    /\ IdleWarn
    /\ IdleVal
    /\ IdleDb
    /\ IdleName
    /\ IdleRetry
    /\ IdleBatch
    /\ IdleApi
    /\ mResume \in MatchedResumes \X MatchedResumes
    /\ mPrompt = <<<<>>, <<>>>>
    /\ mResult = <<"none", "none">>

\* match_resume_to_jd(json.dumps(resume), jd_text) for the k-th record: the
\* record is anonymized and dumped into the prompt, which goes to the
\* language model; the call ends with a result or, the retries used up, with
\* RuntimeError
MatchResumeToJd(k) ==
    /\ mResult[k] = "none"
    /\ mPrompt' = [mPrompt EXCEPT
                      ![k] = build_scoring_prompt(
                                 JsonDumps(anonymize_resume(mResume[k])), JdText)]
    /\ \E outcome \in {"result", "RuntimeError"} :
           mResult' = [mResult EXCEPT ![k] = outcome]
    /\ UNCHANGED <<mResume, cleanVars, sectVars, expVars, parseVars, skillVars,
                   dateVars, listVars, eduVars, warnVars, valVars, dbVars,
                   nameVars, retryVars, batchVars, apiVars>>

NextMatch == \E k \in 1..2 : MatchResumeToJd(k)

SpecMatch == InitMatch /\ [][NextMatch]_vars

IdentifyingKeys == {"name", "email", "phone", "raw_text"}

\* C19: two records that differ only in name, email, phone and raw_text get
\* the same prompt from match_resume_to_jd.
C19_PromptFreeOfIdentifiers ==
    (/\ mResult # <<>>
     /\ mResult[1] # "none"
     /\ mResult[2] # "none"
     /\ \A key \in DOMAIN mResume[1] \ IdentifyingKeys :
            mResume[1][key] = mResume[2][key])
        => mPrompt[1] = mPrompt[2]
(***************************************************************************)
(* db.py: save_parsed_resume and update_match_results on the candidates    *)
(* collection                                                              *)
(***************************************************************************)
HexDigits == Digits \cup {"a", "b", "c", "d", "e", "f", "A", "B", "C", "D", "E", "F"}

\* ObjectId(s) succeeds: s is a string of 24 hexadecimal digits
IsObjectIdString(s) == Len(s) = 24 /\ \A k \in 1..24 : s[k] \in HexDigits

\* the _id a query for the string resume_id looks up: ObjectId(resume_id)
\* when that constructor accepts it, else the string itself
DocId(resume_id) ==
    IF IsObjectIdString(resume_id)
    THEN [type |-> "ObjectId", value |-> LowerSeq(resume_id)]
    ELSE [type |-> "str", value |-> resume_id]

\* str(ObjectId) of the k-th ObjectId the database generates
OidString(k) == [i \in 1..24 |-> IF i = 24 THEN <<"1","2","3","4","5","6","7","8","9">>[k]
                                  ELSE "0"]

\* the index of the document with the given _id, 0 when there is none
FindOne(candidates, id) ==
    LET hits == {k \in 1..Len(candidates) : candidates[k]._id = id}
    IN  IF hits = {} THEN 0 ELSE MinOf(hits)

\* the identifiers a caller generates itself
U_First == <<"3","f","2","a","-","1">>

U_Second == <<"9","c","0","d","-","2">>

\* the resume dictionaries saved; the empty one is refused
ResumeDicts == {<<>>, [name |-> T_JaneDoe], [name |-> T_JohnRoe]}

\* the most calls of a run
MaxCalls == 3

\* the identifiers a caller holds: its own and those earlier saves returned
KnownIds == {U_First, U_Second} \cup {OidString(k) : k \in 1..dbOids}

\* a custom file_id that has the form of an ObjectId
U_Hex == [i \in 1..24 |-> IF i % 2 = 1 THEN "a" ELSE "5"]

\* the file_id values a caller passes: the identifiers it holds, or a custom
\* string of its own choice
FileIds == KnownIds \cup {U_Hex}

InitDb ==
    /\ IdleClean
    /\ IdleSections
    /\ IdleExp
    /\ IdleParse
    /\ IdleSkills
    /\ IdleDates
    /\ IdleLists
    /\ IdleEdu
    /\ IdleWarn
    /\ IdleVal
    /\ IdleMatch
    /\ IdleName
    /\ IdleRetry
    /\ IdleBatch
    /\ IdleApi
    /\ dbCandidates = <<>>
    /\ dbOids = 0
    /\ dbLog = <<>>

Metadata(resume_data) ==
    [name |-> IF "name" \in DOMAIN resume_data THEN resume_data.name ELSE T_Unknown]

\* save_parsed_resume(resume_data, file_id): an empty dictionary raises
\* ValueError; without file_id the database generates an ObjectId; with one,
\* the document is inserted under that string, or, on DuplicateKeyError, the
\* stored document's resume_data, updated_at and metadata are set
SaveParsedResume(resume_data, file_id) ==
    LET now == Len(dbLog) + 1
        document == [resume_data |-> resume_data, uploaded_at |-> now,
                     updated_at |-> now, match_history |-> <<>>,
                     status |-> "parsed", metadata |-> Metadata(resume_data)]
        call(returned) == [op |-> "save_parsed_resume", id |-> returned,
                           arg |-> resume_data, ok |-> returned # <<>>]
        withId(id) == [key \in DOMAIN document \cup {"_id"} |->
                          IF key = "_id" THEN id ELSE document[key]]
    IN  /\ Len(dbLog) < MaxCalls
        /\ IF resume_data = <<>>
           THEN /\ dbLog' = Append(dbLog, call(<<>>))
                /\ UNCHANGED <<dbCandidates, dbOids>>
           ELSE IF file_id = <<>>
           THEN /\ dbOids' = dbOids + 1
                /\ dbCandidates' =
                       Append(dbCandidates,
                              withId([type |-> "ObjectId",
                                      value |-> OidString(dbOids + 1)]))
                /\ dbLog' = Append(dbLog, call(OidString(dbOids + 1)))
           ELSE LET id == [type |-> "str", value |-> file_id]
                    k == FindOne(dbCandidates, id)
                IN  /\ dbCandidates' =
                           IF k = 0 THEN Append(dbCandidates, withId(id))
                           ELSE [dbCandidates EXCEPT
                                    ![k].resume_data = resume_data,
                                    ![k].updated_at = now,
                                    ![k].metadata = Metadata(resume_data)]
                    /\ dbLog' = Append(dbLog, call(file_id))
                    /\ UNCHANGED dbOids
        /\ UNCHANGED <<cleanVars, sectVars, expVars, parseVars, skillVars,
                       dateVars, listVars, eduVars, warnVars, valVars, matchVars,
                   nameVars, retryVars, batchVars, apiVars>>

\* update_match_results(resume_id, jd_id, match_result): the entry is pushed
\* onto the match_history of the document found under DocId(resume_id) and
\* True returned; False when no document is modified or the database raises
UpdateMatchResults(resume_id, jd_id, raises) ==
    LET now == Len(dbLog) + 1
        match_entry == [jd_id |-> jd_id, timestamp |-> now]
        k == FindOne(dbCandidates, DocId(resume_id))
        call(returned) == [op |-> "update_match_results", id |-> resume_id,
                           arg |-> match_entry, ok |-> returned]
    IN  /\ Len(dbLog) < MaxCalls
        /\ IF raises \/ k = 0
           THEN /\ dbLog' = Append(dbLog, call(FALSE))
                /\ UNCHANGED dbCandidates
           ELSE /\ dbCandidates' =
                       [dbCandidates EXCEPT
                           ![k].match_history = Append(@, match_entry),
                           ![k].updated_at = now]
                /\ dbLog' = Append(dbLog, call(TRUE))
        /\ UNCHANGED <<dbOids, cleanVars, sectVars, expVars, parseVars,
                       skillVars, dateVars, listVars, eduVars, warnVars, valVars,
                       matchVars, nameVars, retryVars, batchVars, apiVars>>

\* the identifier a stored document is known by: the string of its _id
IdOf(document) == document._id.value

\* get_resume_by_id(resume_id): the document found under DocId(resume_id),
\* its _id converted to a string, or None when there is none or the database
\* raises
GetResumeById(resume_id, raises) ==
    LET k == FindOne(dbCandidates, DocId(resume_id))
        document == [dbCandidates[k] EXCEPT !._id = IdOf(dbCandidates[k])]
        returned == IF raises \/ k = 0 THEN [found |-> FALSE]
                    ELSE [found |-> TRUE, document |-> document]
    IN  /\ Len(dbLog) < MaxCalls
        /\ dbLog' = Append(dbLog, [op |-> "get_resume_by_id", id |-> resume_id,
                                   arg |-> returned, ok |-> ~raises])
        /\ UNCHANGED <<dbCandidates, dbOids, cleanVars, sectVars, expVars,
                       parseVars, skillVars, dateVars, listVars, eduVars,
                       warnVars, valVars, matchVars, nameVars, retryVars,
                   batchVars, apiVars>>

NextDb ==
    \/ \E resume_data \in ResumeDicts : \E file_id \in FileIds \cup {<<>>} :
           SaveParsedResume(resume_data, file_id)
    \/ \E resume_id \in FileIds : \E raises \in BOOLEAN :
           GetResumeById(resume_id, raises)
    \/ \E resume_id \in KnownIds : \E raises \in BOOLEAN :
           UpdateMatchResults(resume_id, "jd-1", raises)

SpecDb == InitDb /\ [][NextDb]_vars

\* the entries of the calls of update_match_results for an identifier that
\* returned True, in call order
RECURSIVE SuccessfulUpdates(_, _)
SuccessfulUpdates(log, id) ==
    IF log = <<>> THEN <<>>
    ELSE (IF log[1].op = "update_match_results" /\ log[1].ok /\ log[1].id = id
          THEN <<log[1].arg>> ELSE <<>>)
         \o SuccessfulUpdates(Tail(log), id)

\* C20: the match_history of every stored candidate is the sequence of the
\* entries of the successful update_match_results calls for its identifier,
\* in call order.
C20_HistoryIsSuccessfulUpdates ==
    \A k \in 1..Len(dbCandidates) :
        dbCandidates[k].match_history
            = SuccessfulUpdates(dbLog, IdOf(dbCandidates[k]))

\* the calls of save_parsed_resume before call j that returned the identifier
\* call j was made with
SavesBefore(log, j) ==
    {i \in 1..(j - 1) : /\ log[i].op = "save_parsed_resume"
                        /\ log[i].ok
                        /\ log[i].id = log[j].id}

\* C21: get_resume_by_id called with an identifier that save_parsed_resume
\* returned gives a document, and its resume_data is the data of the latest
\* save that returned that identifier.
C21_SaveRetrieveRoundTrip ==
    \A j \in 1..Len(dbLog) :
        (/\ dbLog[j].op = "get_resume_by_id"
         /\ dbLog[j].ok
         /\ SavesBefore(dbLog, j) # {})
            => /\ dbLog[j].arg.found
               /\ dbLog[j].arg.document.resume_data
                      = dbLog[MaxOf(SavesBefore(dbLog, j))].arg
(***************************************************************************)
(* Name runs: the name block of parse_resume_to_model on a cleaned text    *)
(***************************************************************************)
N_Short == <<"J","o">>

N_Header == <<"C","u","r","r","i","c","u","l","u","m">>

N_Filler ==
    <<"B","u","i","l","d","s"," ","r","e","l","i","a","b","l","e"," ","d",
      "a","t","a"," ","s","y","s","t","e","m","s"," ","f","o","r"," ","l",
      "a","r","g","e"," ","t","e","a","m","s"," ","a","n","d"," ","s","h",
      "i","p","s"," ","t","h","e","m",".">>

NameLines == {T_JaneDoe, T_JohnRoe, N_Short, N_Header, T_JaneMail}

\* the most lines before the closing paragraph of a text
MaxNameLines == 2

\* the texts of at most n lines followed by a paragraph of one long line
RECURSIVE LinesTexts(_)
LinesTexts(n) ==
    IF n = 0 THEN {N_Filler}
    ELSE LET prev == LinesTexts(n - 1)
         IN  prev \cup {line \o <<"\n">> \o t : line \in NameLines, t \in prev}

\* the texts read_document returns: cleaning leaves them as they are
NameTexts == {t \in LinesTexts(MaxNameLines) : clean_text(t) = t /\ ~TooShort(t)}

InitName ==
    /\ IdleClean
    /\ IdleSections
    /\ IdleExp
    /\ IdleParse
    /\ IdleSkills
    /\ IdleDates
    /\ IdleLists
    /\ IdleEdu
    /\ IdleWarn
    /\ IdleVal
    /\ IdleMatch
    /\ IdleDb
    /\ IdleRetry
    /\ IdleBatch
    /\ IdleApi
    /\ nText \in NameTexts
    /\ nPersons \in SUBSET {T_JaneDoe, T_JohnRoe}
    /\ nName = <<>>
    /\ npc = "name"

\* the try block around extract_name(text): an empty name becomes "Unknown";
\* the language model, called when the first line is no name, may raise, and
\* the except block assigns "Unknown"
NameBlock ==
    /\ npc = "name"
    /\ \/ nName' = StageValue("name", nText, [persons |-> nPersons, orgs |-> {}])
       \/ /\ extract_name(nText, {}) = <<>>
          /\ nName' = StageDefault("name")
    /\ npc' = "done"
    /\ UNCHANGED <<nText, nPersons, cleanVars, sectVars, expVars, parseVars,
                   skillVars, dateVars, listVars, eduVars, warnVars, valVars,
                   matchVars, dbVars, retryVars, batchVars, apiVars>>

NextName == NameBlock

SpecName == InitName /\ [][NextName]_vars

\* a line that starts with a resume, CV or curriculum header phrase
HeaderPhrase(line) ==
    \/ LitAt(line, 1, L_resume)
    \/ LitAt(line, 1, L_cv)
    \/ LitAt(line, 1, L_curriculum)

\* the lines of 3 to 49 characters that are no header phrase
NameLike(text) ==
    LET lines == SplitLines(text)
    IN  {k \in 1..Len(lines) : /\ Len(Strip(lines[k])) \in 3..49
                               /\ ~HeaderPhrase(Strip(lines[k]))}

\* C23: the name is the first line of 3 to 49 characters that is no header
\* phrase; without such a line it is the first PERSON entity of the first 500
\* characters, and without one it is "Unknown".
C23_NameIsFirstQualifyingLine ==
    npc = "done" =>
        LET lines == SplitLines(nText)
            ents == EntitiesIn(SubSeq(nText, 1, MinOf({500, Len(nText)})),
                               nPersons)
        IN  nName = (IF NameLike(nText) # {}
                     THEN Strip(lines[MinOf(NameLike(nText))])
                     ELSE IF ents # <<>> THEN ents[1] ELSE T_Unknown)
\* the first line of a role block that holds a year, a month name or the
\* word present
FirstDateLine(block) ==
    LET lines == SplitLines(Strip(block))
        dated == {k \in 1..Len(lines) : HasDateCue(Strip(lines[k]))}
    IN  IF dated = {} THEN T_NoDuration ELSE Strip(lines[MinOf(dated)])

\* the first date lines of the blocks that give a role, in order
RECURSIVE FirstDateLines(_, _)
FirstDateLines(blocks, orgs) ==
    IF blocks = <<>> THEN <<>>
    ELSE (IF RoleOfBlock(blocks[1], orgs) = <<>> THEN <<>>
          ELSE <<FirstDateLine(blocks[1])>>)
         \o FirstDateLines(Tail(blocks), orgs)

\* C24: the duration of every role is the first line of its block that holds
\* a year, a month name or the word present; a later such line of the block
\* does not replace it.
C24_DurationIsFirstDateLine ==
    xpc # "start" =>
        LET claimed == FirstDateLines(SplitBlocks(xText), xOrgs)
        IN  \A k \in 1..Len(xExperience.roles) :
                xExperience.roles[k].duration = claimed[k]
IsPdfFile(f) == f.exists /\ f.suffix = ".pdf"

\* the pages whose extraction returned some text, in page order
ExtractedPages(f) ==
    SelectSeq(f.pages, LAMBDA page : page.kind = "ok" /\ page.text # <<>>)

\* the texts of the first n of the pages, one after the other, each closed
\* by a line break
RECURSIVE PageLines(_, _)
PageLines(pages, n) ==
    IF n = 0 THEN <<>>
    ELSE PageLines(pages, n - 1) \o pages[n].text \o <<"\n">>

\* C25: for a PDF that opens, read_pdf raises FileReadError when there is no
\* page; it returns exactly when some page yields a text with a character
\* that is not whitespace, and raises FileReadError otherwise; a page that
\* raises or yields nothing is left out, and what is returned is the cleaned
\* text of the remaining pages in page order.
C25_PdfReadsExtractedPages ==
    (cpc # "start" /\ IsPdfFile(file) /\ ~file.syntaxError) =>
        LET extracted == ExtractedPages(file)
            legible == \E k \in 1..Len(extracted) :
                           ~WhitespaceOnly(extracted[k].text)
        IN  /\ rd.kind \in {"ok", "FileReadError"}
            /\ Len(file.pages) = 0 => rd.kind = "FileReadError"
            /\ rd.kind = "ok" <=> legible
            /\ rd.kind = "ok" =>
                   rd.text = clean_text(PageLines(extracted, Len(extracted)))

\* a first page whose extraction raises and a second page with text: the
\* read returns the text of the second page
C25_Witness ==
    /\ cpc = "read"
    /\ IsPdfFile(file)
    /\ Len(file.pages) = 2
    /\ file.pages[1].kind # "ok"
    /\ rd = Ok(<<"y">>)
\* the days of a written range, counted once: those of its match with the
\* first of the patterns that matches it
RangeDays(range) ==
    LET shapes == {k \in 1..Len(date_patterns) :
                      FindAll(date_patterns[k].items, range, 1) # <<>>}
    IN  IF shapes = {} THEN 0
        ELSE LET pat == date_patterns[MinOf(shapes)]
             IN  MatchDays(range, pat, FindAll(pat.items, range, 1)[1])

RECURSIVE SumRangeDays(_)
SumRangeDays(ranges) ==
    IF ranges = <<>> THEN 0
    ELSE RangeDays(ranges[1]) + SumRangeDays(Tail(ranges))

\* C26: every range written in the text adds its span to the total once,
\* however many of the three patterns match it: the years returned are the
\* rounded sum of the spans of the ranges, one per line.
C26_EachRangeCountedOnce ==
    dpc = "done" => dYears = RoundTenths(SumRangeDays(SplitLines(dText)))

ParserErrors == {"ParserError", "FileReadError", "ValidationError"}

\* C27: an exception that leaves read_document is a FileReadError, and an
\* exception that leaves parse_resume_to_model is a ParserError, a
\* FileReadError or a ValidationError.
C27_ErrorTypesClosed ==
    /\ pRead.kind \in {"none", "ok", "FileReadError"}
    /\ pOutcome.kind \in {"none", "Resume"} \cup ParserErrors

\* a file whose path.stat() raises OSError inside the reader: read_document
\* raises FileReadError and so does the parse
C27_Witness ==
    /\ ppc = "done"
    /\ pFile.exists
    /\ pFile.statError
    /\ pRead = Raise("FileReadError")
    /\ pOutcome = Raised("FileReadError")
(***************************************************************************)
(* matcher.py: the weights, the weighted score and the retry loop of       *)
(* match_resume_to_jd. Sub-scores are whole points, weights are hundredths *)
(* and overall scores are tenths of a point.                               *)
(***************************************************************************)
ScoreCategories ==
    <<"skills", "experience", "education_projects", "achievements",
      "extracurricular">>

DEFAULT_WEIGHTS ==
    [skills |-> 40, experience |-> 25, education_projects |-> 15,
     achievements |-> 10, extracurricular |-> 10]

RECURSIVE SumOver(_, _)
SumOver(f, keys) ==
    IF keys = {} THEN 0
    ELSE LET key == CHOOSE key \in keys : TRUE
         IN  f[key] + SumOver(f, keys \ {key})

\* validate_weights(weights): TRUE when it returns True, FALSE when it raises
\* ValueError: the keys are those of DEFAULT_WEIGHTS, every value lies in
\* 0..1 and the values sum to 1.0 within 0.01
validate_weights(weights) ==
    /\ DOMAIN weights = DOMAIN DEFAULT_WEIGHTS
    /\ \A key \in DOMAIN weights : weights[key] \in 0..100
    /\ SumOver(weights, DOMAIN weights) \in 99..101

\* round(x, 1) of x = hundredths / 100, in tenths; the inputs of the model
\* keep the sum away from the middle between two tenths
RoundToTenth(hundredths) ==
    LET q == hundredths \div 10
        r == hundredths % 10
    IN  IF r > 5 \/ (r = 5 /\ q % 2 = 1) THEN q + 1 ELSE q

Clamp(lo, x, hi) == IF x < lo THEN lo ELSE IF x > hi THEN hi ELSE x

\* aggregate_scores(category_scores, weights), weights already validated:
\* every score is brought into 1..10, a missing one counting as 0.0, the
\* weighted sum is rounded to one decimal and brought into 1.0..10.0
aggregate_scores(category_scores, weights) ==
    LET score(c) == Clamp(1, IF c \in DOMAIN category_scores
                             THEN category_scores[c] ELSE 0, 10)
        weighted == [c \in DOMAIN weights |-> score(c) * weights[c]]
    IN  Clamp(10, RoundToTenth(SumOver(weighted, DOMAIN weights)), 100)

\* the fields validate_llm_output requires besides sub_scores and overall,
\* with the type of each
RequiredFields ==
    [justifications |-> "dict", feedback |-> "list", strengths |-> "list",
     gaps |-> "list", transferable_skills |-> "list",
     hiring_recommendation |-> "str"]

\* validate_llm_output(output): every required field is there with its
\* type, and sub_scores holds a number in 1..10 for each category
validate_llm_output(output) ==
    /\ {"sub_scores", "overall"} \cup DOMAIN RequiredFields \subseteq DOMAIN output
    /\ \A field \in DOMAIN RequiredFields : output[field] = RequiredFields[field]
    /\ \A k \in 1..Len(ScoreCategories) :
           /\ ScoreCategories[k] \in DOMAIN output.sub_scores
           /\ output.sub_scores[ScoreCategories[k]] \in 1..10
Scores(a, b, c, d, e) ==
    [skills |-> a, experience |-> b, education_projects |-> c,
     achievements |-> d, extracurricular |-> e]

\* the overall score the language model states, whatever the sub-scores
LlmOverall == 90

\* an output of the language model with every required field
LlmOutput(sub_scores) ==
    [sub_scores |-> sub_scores, overall |-> LlmOverall,
     justifications |-> "dict", feedback |-> "list", strengths |-> "list",
     gaps |-> "list", transferable_skills |-> "list",
     hiring_recommendation |-> "str"]

Without(map, key) == [n \in DOMAIN map \ {key} |-> map[n]]

ValidOutputs ==
    {LlmOutput(Scores(7, 7, 7, 7, 7)), LlmOutput(Scores(7, 7, 7, 8, 7)),
     LlmOutput(Scores(10, 4, 2, 1, 1))}

InvalidOutputs ==
    {Without(LlmOutput(Scores(8, 8, 8, 8, 8)), "gaps"),
     [LlmOutput(Scores(8, 8, 8, 8, 8)) EXCEPT !.feedback = "str"],
     LlmOutput(Without(Scores(8, 8, 8, 8, 8), "achievements")),
     LlmOutput(Scores(11, 8, 8, 8, 8)),
     LlmOutput(Scores(8, 0, 8, 8, 8))}

\* what one call of client.chat.completions.create gives: an exception, or
\* a text that is a JSON object, holds one in a code fence, or holds none
LlmResponses ==
    {[kind |-> "error"], [kind |-> "text", format |-> "garbage"]}
    \cup {[kind |-> "text", format |-> "json", output |-> o] :
             o \in ValidOutputs \cup InvalidOutputs}
    \cup {[kind |-> "text", format |-> "fenced", output |-> o] :
             o \in {LlmOutput(Scores(7, 7, 7, 7, 7))}}

\* parse_llm_json_response(response_text): the object parsed, or None
parse_llm_json_response(response) ==
    IF response.format \in {"json", "fenced"}
    THEN [found |-> TRUE, output |-> response.output]
    ELSE [found |-> FALSE]

\* custom weights that validate, and the requirements dictionary of a job
\* description, which does not
W_Custom ==
    [skills |-> 50, experience |-> 20, education_projects |-> 10,
     achievements |-> 10, extracurricular |-> 10]

W_Requirements ==
    [required_skills |-> <<"Python">>, experience_years |-> 3,
     education |-> "Bachelor"]

\* the largest max_retries of a run
MaxRetries == 2

InitRetry ==
    /\ IdleClean
    /\ IdleSections
    /\ IdleExp
    /\ IdleParse
    /\ IdleSkills
    /\ IdleDates
    /\ IdleLists
    /\ IdleEdu
    /\ IdleWarn
    /\ IdleVal
    /\ IdleMatch
    /\ IdleDb
    /\ IdleName
    /\ IdleBatch
    /\ IdleApi
    /\ rMaxRetries \in -1..MaxRetries
    /\ rWeights \in {None, Some(W_Custom), Some(W_Requirements)}
    /\ rLog = <<>>
    /\ rPrompt = "none"
    /\ rOutcome = [kind |-> "none"]
    /\ rpc = "start"

\* the weights a call works with: DEFAULT_WEIGHTS for None
WeightsUsed(weights) == IF weights.some THEN weights.text ELSE DEFAULT_WEIGHTS

\* the statements before the loop: custom weights are validated, ValueError
\* leaving the function, and the scoring prompt is built
StartMatching ==
    /\ rpc = "start"
    /\ IF rWeights.some /\ ~validate_weights(rWeights.text)
       THEN /\ rOutcome' = [kind |-> "ValueError"]
            /\ rpc' = "done"
            /\ UNCHANGED rPrompt
       ELSE /\ rPrompt' = "scoring"
            /\ rpc' = "attempt"
            /\ UNCHANGED rOutcome
    /\ UNCHANGED <<rMaxRetries, rWeights, rLog, cleanVars, sectVars, expVars,
                   parseVars, skillVars, dateVars, listVars, eduVars,
                   warnVars, valVars, matchVars, dbVars, nameVars, batchVars,
                   apiVars>>

\* the output of a validated response as it is returned: overall is the
\* weighted score computed here, shortlisted tells whether it exceeds 7.0
FinalOutput_KeepLlmOverall(output, weights) ==
    LET calculated_overall == output.overall
    IN  [key \in DOMAIN output \cup {"shortlisted", "weights_used"} |->
            CASE key = "overall" -> calculated_overall
              [] key = "shortlisted" -> calculated_overall > 70
              [] key = "weights_used" -> weights
              [] OTHER -> output[key]]

FinalOutput(output, weights) ==
    LET calculated_overall == aggregate_scores(output.sub_scores, weights)
    IN  [key \in DOMAIN output \cup {"shortlisted", "weights_used"} |->
            CASE key = "overall" -> calculated_overall
              [] key = "shortlisted" -> calculated_overall > 70
              [] key = "weights_used" -> weights
              [] OTHER -> output[key]]

\* one pass of the loop, attempt = Len(rLog): the call raises, or its text
\* does not parse (the next prompt is the fix-up prompt), or the output
\* parsed fails validate_llm_output; each of these goes on to the next
\* attempt, or raises RuntimeError when attempt = max_retries; a validated
\* output is returned
LlmAttempt(response) ==
    LET attempt == Len(rLog)
        parsed == parse_llm_json_response(response)
        failed == \/ response.kind = "error"
                  \/ ~parsed.found
                  \/ ~validate_llm_output(parsed.output)
    IN  /\ rpc = "attempt"
        /\ attempt < rMaxRetries + 1
        /\ rLog' = Append(rLog, response)
        /\ IF failed
           THEN /\ IF attempt < rMaxRetries
                   THEN rpc' = "attempt" /\ UNCHANGED rOutcome
                   ELSE rpc' = "done" /\ rOutcome' = [kind |-> "RuntimeError"]
                /\ rPrompt' = IF /\ response.kind = "text"
                                 /\ ~parsed.found
                                 /\ attempt < rMaxRetries
                              THEN "fix-up" ELSE rPrompt
           ELSE /\ rOutcome' = [kind |-> "returned",
                                output |-> FinalOutput(parsed.output,
                                                       WeightsUsed(rWeights))]
                /\ rpc' = "done"
                /\ UNCHANGED rPrompt
        /\ UNCHANGED <<rMaxRetries, rWeights, cleanVars, sectVars, expVars,
                       parseVars, skillVars, dateVars, listVars, eduVars,
                       warnVars, valVars, matchVars, dbVars, nameVars,
                   batchVars, apiVars>>

\* the statement after the loop, reached when the loop has no pass to make
LoopExhausted ==
    /\ rpc = "attempt"
    /\ Len(rLog) >= rMaxRetries + 1
    /\ rOutcome' = [kind |-> "RuntimeError"]
    /\ rpc' = "done"
    /\ UNCHANGED <<rMaxRetries, rWeights, rLog, rPrompt, cleanVars, sectVars,
                   expVars, parseVars, skillVars, dateVars, listVars, eduVars,
                   warnVars, valVars, matchVars, dbVars, nameVars, batchVars,
                   apiVars>>

NextRetry ==
    \/ StartMatching
    \/ \E response \in LlmResponses : LlmAttempt(response)
    \/ LoopExhausted

SpecRetry == InitRetry /\ [][NextRetry]_vars

\* the loop goes on as long as a step is possible
SpecRetryFair == SpecRetry /\ WF_vars(NextRetry)
\* the response is one the loop rejects: a raised call, a text that does not
\* parse, or an output lacking a field or holding a sub-score outside 1..10
Rejected(response) ==
    \/ response.kind = "error"
    \/ response.format = "garbage"
    \/ ~ (/\ DOMAIN LlmOutput(<<>>) \subseteq DOMAIN response.output
          /\ \A field \in DOMAIN RequiredFields :
                 response.output[field] = RequiredFields[field]
          /\ DOMAIN Scores(0, 0, 0, 0, 0) \subseteq DOMAIN response.output.sub_scores
          /\ \A c \in DOMAIN Scores(0, 0, 0, 0, 0) :
                 response.output.sub_scores[c] \in 1..10)

RetryInvariant ==
    /\ Len(rLog) <= (IF rMaxRetries < 0 THEN 0 ELSE rMaxRetries + 1)
    /\ \A k \in 1..(Len(rLog) - 1) : Rejected(rLog[k])
    /\ rOutcome.kind \in {"none", "returned", "RuntimeError", "ValueError"}
    /\ rOutcome.kind = "ValueError" =>
           /\ rLog = <<>>
           /\ rWeights.some
           /\ DOMAIN rWeights.text # DOMAIN DEFAULT_WEIGHTS
    /\ rOutcome.kind = "RuntimeError" =>
           /\ Len(rLog) = (IF rMaxRetries < 0 THEN 0 ELSE rMaxRetries + 1)
           /\ \A k \in 1..Len(rLog) : Rejected(rLog[k])
    /\ rOutcome.kind = "returned" =>
           LET last == rLog[Len(rLog)]
           IN  /\ rLog # <<>>
               /\ ~Rejected(last)
               /\ rOutcome.output.sub_scores = last.output.sub_scores
               /\ rOutcome.output.overall
                      = aggregate_scores(last.output.sub_scores,
                                         WeightsUsed(rWeights))
    /\ rOutcome.kind = "none" <=> rpc # "done"

MatchOutcomes(weights) ==
    IF weights.some /\ ~validate_weights(weights.text)
    THEN {[kind |-> "ValueError"]}
    ELSE {[kind |-> "RuntimeError"]}
         \cup {[kind |-> "returned",
                output |-> FinalOutput(o, WeightsUsed(weights))] :
                  o \in ValidOutputs}

\* resume_data.get('name', f'Candidate_{idx+1}')
CandidateId(resume_data, idx) ==
    IF "name" \in DOMAIN resume_data THEN resume_data.name
    ELSE <<"Candidate_", idx>>

\* the entry of a scored candidate, and the entry of one whose scoring raised
ScoredResult(resume_data, idx, match_result) ==
    [candidate_id |-> CandidateId(resume_data, idx),
     overall_score |-> match_result.overall,
     sub_scores |-> match_result.sub_scores,
     shortlisted |-> match_result.shortlisted,
     hiring_recommendation |-> match_result.hiring_recommendation,
     original_resume |-> Metadata(resume_data)]

FailedResult(resume_data, idx, error) ==
    [candidate_id |-> CandidateId(resume_data, idx),
     overall_score |-> 0,
     error |-> error,
     shortlisted |-> FALSE]

\* the entry the loop appends for a resume, given what match_resume_to_jd did
ResultEntry(resume_data, idx, outcome) ==
    IF outcome.kind = "returned"
    THEN ScoredResult(resume_data, idx, outcome.output)
    ELSE FailedResult(resume_data, idx, outcome.kind)

\* results.sort(key=overall_score, reverse=True): descending, entries of
\* equal score keeping their order
RECURSIVE SortByScore(_)
SortByScore(results) ==
    IF results = <<>> THEN <<>>
    ELSE LET top == MaxOf({results[k].overall_score : k \in 1..Len(results)})
             i == MinOf({k \in 1..Len(results) : results[k].overall_score = top})
         IN  <<results[i]>>
             \o SortByScore(SubSeq(results, 1, i - 1)
                            \o SubSeq(results, i + 1, Len(results)))

\* result['rank'] = rank for rank, result in enumerate(results, 1)
WithRanks(results) ==
    [k \in 1..Len(results) |-> SetKey(results[k], "rank", k)]

\* the resumes of a batch: a dumped record, and an entry as main.py builds it
BatchResumes ==
    {[name |-> T_JaneDoe],
     [resume_id |-> U_First, resume_data |-> [name |-> T_JohnRoe]]}

\* the most resumes of a batch
MaxBatch == 3

RECURSIVE SeqsUpTo(_, _)
SeqsUpTo(S, n) ==
    IF n = 0 THEN {<<>>}
    ELSE LET prev == SeqsUpTo(S, n - 1)
         IN  prev \cup {Append(q, x) : q \in prev, x \in S}

InitBatch ==
    /\ IdleClean
    /\ IdleSections
    /\ IdleExp
    /\ IdleParse
    /\ IdleSkills
    /\ IdleDates
    /\ IdleLists
    /\ IdleEdu
    /\ IdleWarn
    /\ IdleVal
    /\ IdleMatch
    /\ IdleDb
    /\ IdleName
    /\ IdleRetry
    /\ IdleApi
    /\ bResumes \in SeqsUpTo(BatchResumes, MaxBatch)
    /\ bWeights \in {None, Some(W_Requirements)}
    /\ bResults = <<>>
    /\ bOutcome = [kind |-> "none"]
    /\ bShort = <<>>
    /\ bpc = "scoring"

\* one pass of the loop over resumes_list: the result of match_resume_to_jd
\* is appended, or, when it raises, an error entry
ScoreCandidate ==
    LET idx == Len(bResults)
        resume_data == bResumes[idx + 1]
    IN  /\ bpc = "scoring"
        /\ idx < Len(bResumes)
        /\ \E outcome \in MatchOutcomes(bWeights) :
               bResults' =
                   Append(bResults, ResultEntry(resume_data, idx + 1, outcome))
        /\ UNCHANGED <<bResumes, bWeights, bOutcome, bShort, bpc, cleanVars,
                       sectVars, expVars, parseVars, skillVars, dateVars,
                       listVars, eduVars, warnVars, valVars, matchVars,
                       dbVars, nameVars, retryVars, apiVars>>

\* after the loop: the results are sorted and ranked and returned; logging
\* the top candidate reads results[0], which raises IndexError for an empty
\* list
RankAndReturn ==
    /\ bpc = "scoring"
    /\ Len(bResults) = Len(bResumes)
    /\ bResults' = WithRanks(SortByScore(bResults))
    /\ bOutcome' = IF bResults' = <<>> THEN [kind |-> "IndexError"]
                   ELSE [kind |-> "returned", results |-> bResults']
    /\ bpc' = "done"
    /\ UNCHANGED <<bResumes, bWeights, bShort, cleanVars, sectVars, expVars,
                   parseVars, skillVars, dateVars, listVars, eduVars,
                   warnVars, valVars, matchVars, dbVars, nameVars, retryVars,
                   apiVars>>

\* the default min_score of get_shortlisted_candidates, in tenths
DefaultMinScore == 70

\* get_shortlisted_candidates(batch_results): the entries whose
\* overall_score is at least min_score
get_shortlisted_candidates(batch_results, min_score) ==
    SelectSeq(batch_results, LAMBDA result : result.overall_score >= min_score)

GetShortlistedCandidates ==
    /\ bpc = "done"
    /\ bOutcome.kind = "returned"
    /\ bShort' = get_shortlisted_candidates(bOutcome.results, DefaultMinScore)
    /\ bpc' = "shortlisted"
    /\ UNCHANGED <<bResumes, bWeights, bResults, bOutcome, cleanVars,
                   sectVars, expVars, parseVars, skillVars, dateVars,
                   listVars, eduVars, warnVars, valVars, matchVars, dbVars,
                   nameVars, retryVars, apiVars>>

NextBatch == ScoreCandidate \/ RankAndReturn \/ GetShortlistedCandidates

SpecBatch == InitBatch /\ [][NextBatch]_vars

\* C29: score_batch returns one result per resume of the list; a candidate
\* whose scoring raised is an error entry with overall_score 0.0 and
\* shortlisted False; the results are in descending order of overall_score
\* and their ranks are 1..n in that order.
C29_OneRankedResultPerResume ==
    bpc # "scoring" =>
        /\ bOutcome.kind = "returned"
        /\ Len(bOutcome.results) = Len(bResumes)
        /\ \A k \in 1..Len(bOutcome.results) :
               LET result == bOutcome.results[k]
               IN  /\ result.rank = k
                   /\ k > 1 => bOutcome.results[k - 1].overall_score
                                   >= result.overall_score
                   /\ "error" \in DOMAIN result =>
                          result.overall_score = 0 /\ ~result.shortlisted

\* C30: get_shortlisted_candidates with its default threshold returns the
\* results of score_batch whose shortlisted flag is true, and no other.
C30_ShortlistsAgree ==
    bpc = "shortlisted" =>
        bShort = SelectSeq(bOutcome.results, LAMBDA result : result.shortlisted)
(***************************************************************************)
(* main.py: POST /match/{jd_id}                                            *)
(***************************************************************************)
\* score_batch on a list that is not empty, outcomes[k] being what
\* match_resume_to_jd does for the k-th resume
score_batch(resumes_list, outcomes) ==
    WithRanks(SortByScore([k \in 1..Len(resumes_list) |->
                              ResultEntry(resumes_list[k], k, outcomes[k])]))

K_First == <<"3","f","2","a","9","c","0","d">>

K_Second == <<"9","c","0","d","3","f","2","a">>

K_Third == <<"7","b","1","e","4","4","a","0">>

CandidateIds == {K_First, K_Second, K_Third}

JobIds == {"jd-1"}

\* the most candidate ids of a request
MaxRequest == 2

\* the bodies MatchRequest accepts: 1 to 50 ids of 8 characters or more,
\* none twice
MatchRequests ==
    {ids \in SeqsUpTo(CandidateIds, MaxRequest) :
        /\ ids # <<>>
        /\ \A i, j \in 1..Len(ids) : i # j => ids[i] # ids[j]}

InitApi ==
    /\ IdleClean
    /\ IdleSections
    /\ IdleExp
    /\ IdleParse
    /\ IdleSkills
    /\ IdleDates
    /\ IdleLists
    /\ IdleEdu
    /\ IdleWarn
    /\ IdleVal
    /\ IdleMatch
    /\ IdleDb
    /\ IdleName
    /\ IdleRetry
    /\ IdleBatch
    /\ qJobs \in SUBSET JobIds
    /\ \E stored \in SUBSET CandidateIds :
           qCandidates = [id \in stored |->
                             [resume_data |-> [name |-> T_JaneDoe],
                              match_history |-> <<>>]]
    /\ qMatchResults = <<>>
    /\ \E ids \in MatchRequests : qRequest = [jd_id |-> "jd-1", candidate_ids |-> ids]
    /\ qResponse = [status |-> 0]
    /\ qpc = "request"

\* the results the storing loop gets through: it reads result["resume_id"]
\* and result["scores"], and a missing key raises KeyError
RECURSIVE StoredPrefix(_)
StoredPrefix(results) ==
    IF results = <<>> \/ ~({"resume_id", "scores"} \subseteq DOMAIN results[1])
    THEN 0
    ELSE 1 + StoredPrefix(Tail(results))

\* match_data of a result
MatchData(jd_id, result) ==
    [jd_id |-> jd_id, scores |-> result.scores, shortlisted |-> result.shortlisted]

\* match_candidates(jd_id, request): 404 without the job description or
\* without any of the candidates; else score_batch is called with the
\* candidates found, the text and, as third argument, the requirements of
\* the job description; the results are stored one by one and listed in the
\* response; an exception on the way gives 500
MatchCandidates ==
    LET jd_id == qRequest.jd_id
        ids == SelectSeq(qRequest.candidate_ids,
                         LAMBDA id : id \in DOMAIN qCandidates)
        candidates_data == [k \in 1..Len(ids) |->
                               [resume_id |-> ids[k],
                                resume_data |-> qCandidates[ids[k]]]]
        jd_requirements == Some(W_Requirements)
    IN  /\ qpc = "request"
        /\ qpc' = "done"
        /\ IF jd_id \notin qJobs \/ ids = <<>>
           THEN /\ qResponse' = [status |-> 404]
                /\ UNCHANGED <<qCandidates, qMatchResults>>
           ELSE \E outcomes \in [1..Len(ids) -> MatchOutcomes(jd_requirements)] :
                    LET scored_results == score_batch(candidates_data, outcomes)
                        n == StoredPrefix(scored_results)
                        stored == SubSeq(scored_results, 1, n)
                    IN  /\ qCandidates' =
                               [id \in DOMAIN qCandidates |->
                                   [qCandidates[id] EXCEPT !.match_history =
                                       @ \o [k \in 1..Len(SelectSeq(stored,
                                                 LAMBDA r : r.resume_id = id)) |->
                                                MatchData(jd_id,
                                                    SelectSeq(stored,
                                                        LAMBDA r : r.resume_id = id)[k])]]]
                        /\ qMatchResults' =
                               qMatchResults
                               \o [k \in 1..n |->
                                      [resume_id |-> stored[k].resume_id,
                                       jd_id |-> jd_id,
                                       match_data |-> MatchData(jd_id, stored[k])]]
                        /\ qResponse' =
                               IF n < Len(scored_results)
                               THEN [status |-> 500]
                               ELSE [status |-> 200,
                                     matched_candidates |->
                                         [k \in 1..n |->
                                             [id |-> stored[k].resume_id,
                                              overall |-> stored[k].scores.overall]]]
        /\ UNCHANGED <<qJobs, qRequest, cleanVars, sectVars, expVars, parseVars,
                       skillVars, dateVars, listVars, eduVars, warnVars,
                       valVars, matchVars, dbVars, nameVars, retryVars,
                       batchVars>>

NextApi == MatchCandidates

SpecApi == InitApi /\ [][NextApi]_vars

\* the ids of the request that are stored
FoundIds ==
    {id \in DOMAIN qCandidates :
        \E k \in 1..Len(qRequest.candidate_ids) : qRequest.candidate_ids[k] = id}

\* C22: with the job description stored and at least one of the candidates
\* stored, the request ends with 200, one match result is added to the
\* match_history of every candidate found and to match_results, and the
\* candidates found are listed; 404 is given only when the job description
\* or all the candidates are missing.
C22_MatchStoresAndRanks ==
    qpc = "done" =>
        /\ qResponse.status = 404
               <=> (qRequest.jd_id \notin qJobs \/ FoundIds = {})
        /\ (qRequest.jd_id \in qJobs /\ FoundIds # {}) =>
               /\ qResponse.status = 200
               /\ \A id \in FoundIds : Len(qCandidates[id].match_history) = 1
               /\ Len(qMatchResults) = Cardinality(FoundIds)
               /\ {qResponse.matched_candidates[k].id :
                      k \in 1..Len(qResponse.matched_candidates)} = FoundIds
====
